---- MODULE Spec2Model ----
(***************************************************************************)
(* The LLM gateway (lambda/gateway/handler.py) as a state machine.         *)
(*                                                                         *)
(* Every client request is one Lambda invocation; invocations run          *)
(* concurrently and share three DynamoDB tables (API keys, rate limits,    *)
(* usage) and the Bedrock backend.  A request slot walks through           *)
(* lambda_handler: Receive -> ValidateKey -> CheckRate -> Route ->         *)
(* Invoke -> TrackUsage; each action is one span of the handler between    *)
(* two calls to shared storage or to the backend.                          *)
(*                                                                         *)
(* Python values: a call either returns or raises; an operator modelling   *)
(* a function yields Return(..) or Raise(exception class).  Strings the    *)
(* code slices or tests by prefix are sequences of segments.  Time is      *)
(* counted in minutes (the rate limiter's window).                         *)
(***************************************************************************)
EXTENDS Integers, Sequences, FiniteSets, TLC

\* ------------------------------------------------------------- bounds
NumReqs == 2         \* concurrent invocations (request slots)
MaxServed == 3       \* requests received over a behaviour
MaxWindow == 1       \* the clock runs over minutes 0..MaxWindow
MaxMsgs == 2         \* longest messages array of the sequential specification
MaxDay == 2          \* the usage table of the usage handler holds days 0..MaxDay

Reqs == 1..NumReqs

\* ------------------------------------------------------------- constants
RATE_LIMIT_RPM == 60

MODEL_MAPPING ==
  [n \in {<<"claude-3-haiku">>, <<"claude-3-sonnet">>, <<"claude-3.5-sonnet">>,
          <<"claude-3-5-sonnet">>, <<"titan-text-express">>, <<"nova-micro">>,
          <<"nova-lite">>} |->
     CASE n = <<"claude-3-haiku">>     -> <<"anthropic", ".", "claude-3-haiku-20240307-v1:0">>
       [] n = <<"claude-3-sonnet">>    -> <<"anthropic", ".", "claude-3-sonnet-20240229-v1:0">>
       [] n = <<"claude-3.5-sonnet">>  -> <<"anthropic", ".", "claude-3-5-sonnet-20240620-v1:0">>
       [] n = <<"claude-3-5-sonnet">>  -> <<"anthropic", ".", "claude-3-5-sonnet-20240620-v1:0">>
       [] n = <<"titan-text-express">> -> <<"amazon", ".", "titan-text-express-v1">>
       [] n = <<"nova-micro">>         -> <<"amazon", ".", "nova", "-micro-v1:0">>
       [] n = <<"nova-lite">>          -> <<"amazon", ".", "nova", "-lite-v1:0">>]

\* price per 1K tokens, in units of 10^-9 dollars per token (0.00025 $/1K = 250)
MODEL_PRICING ==
  [i \in {MODEL_MAPPING[n] : n \in DOMAIN MODEL_MAPPING} |->
     CASE i = <<"anthropic", ".", "claude-3-haiku-20240307-v1:0">>    -> [input |-> 250,  output |-> 1250]
       [] i = <<"anthropic", ".", "claude-3-sonnet-20240229-v1:0">>   -> [input |-> 3000, output |-> 15000]
       [] i = <<"anthropic", ".", "claude-3-5-sonnet-20240620-v1:0">> -> [input |-> 3000, output |-> 15000]
       [] i = <<"amazon", ".", "titan-text-express-v1">>              -> [input |-> 200,  output |-> 600]
       [] i = <<"amazon", ".", "nova", "-micro-v1:0">>                -> [input |-> 35,   output |-> 140]
       [] i = <<"amazon", ".", "nova", "-lite-v1:0">>                 -> [input |-> 60,   output |-> 240]]

\* ------------------------------------------------------------- Python values
Return(v) == [tag |-> "return", exc |-> "", value |-> v]
Raise(e) == [tag |-> "raise", exc |-> e, value |-> <<>>]

\* str.startswith on segmented strings
startswith(s, prefix) ==
  /\ Len(prefix) <= Len(s)
  /\ SubSeq(s, 1, Len(prefix)) = prefix

\* dict.get(key, default) on a record
get(d, k, default) == IF k \in DOMAIN d THEN d[k] ELSE default

\* a response of the handler: error_response / a 200 body / an exception that
\* leaves lambda_handler unhandled
\* an error message: its fixed text, the index and the value an f-string puts in
Text(t) == [text |-> t, index |-> -1, detail |-> <<>>]
TextAt(t, i) == [text |-> t, index |-> i, detail |-> <<>>]
TextOf(t, d) == [text |-> t, index |-> -1, detail |-> d]

NoBody == [object |-> "", model |-> <<>>, content |-> <<>>, input_tokens |-> 0,
           output_tokens |-> 0, total_tokens |-> 0, team_id |-> "", cost_usd |-> 0,
           events |-> <<>>]
NoResponse == [kind |-> "none", statusCode |-> 0, message |-> Text(""), body |-> NoBody]
error_response(status_code, message) ==
  [kind |-> "response", statusCode |-> status_code, message |-> message, body |-> NoBody]
ok_response(body) ==
  [kind |-> "response", statusCode |-> 200, message |-> Text(""), body |-> body]
unhandled(exc) ==
  [kind |-> "exception", statusCode |-> 0, message |-> Text(exc), body |-> NoBody]

\* ------------------------------------------------------------- API keys table
\* The stored ApiKeyRecords.  A record carries the attributes it was written
\* with; expires_at is an ISO string: "aware" carries a UTC offset (what
\* validate_api_key compares against), "naive" carries none (the format the
\* lambda/src variant compares against utcnow()), "malformed" does not parse.
\* `at` is the minute the timestamp denotes; the clock starts at minute 0.
ApiKeysTable ==
  [k \in {"key-a", "key-b", "key-b2", "key-inactive", "key-expired",
          "key-naive", "key-malformed", "key-noteam"} |->
     CASE k = "key-a" ->
            [team_id |-> "team-a", team_name |-> "A", rate_limit_rpm |-> 1, is_active |-> TRUE]
       [] k = "key-b" ->
            [team_id |-> "team-b", team_name |-> "B", rate_limit_rpm |-> 2, is_active |-> TRUE]
       [] k = "key-b2" ->
            [team_id |-> "team-b", team_name |-> "B", rate_limit_rpm |-> 2,
             expires_at |-> [format |-> "aware", at |-> 1000]]
       [] k = "key-inactive" ->
            [team_id |-> "team-a", team_name |-> "A", rate_limit_rpm |-> 1, is_active |-> FALSE]
       [] k = "key-expired" ->
            [team_id |-> "team-a", team_name |-> "A", rate_limit_rpm |-> 1, is_active |-> TRUE,
             expires_at |-> [format |-> "aware", at |-> -1]]
       [] k = "key-naive" ->
            [team_id |-> "team-a", team_name |-> "A", rate_limit_rpm |-> 1, is_active |-> TRUE,
             expires_at |-> [format |-> "naive", at |-> -1]]
       [] k = "key-malformed" ->
            [team_id |-> "team-a", team_name |-> "A", rate_limit_rpm |-> 1, is_active |-> TRUE,
             expires_at |-> [format |-> "malformed", at |-> 0]]
       [] k = "key-noteam" ->
            [team_name |-> "A", rate_limit_rpm |-> 1, is_active |-> TRUE]]

\* what a caller may present in x-api-key / X-Api-Key
PresentedKeys == DOMAIN ApiKeysTable \cup {"key-unknown"}
NoHeader == "<no header>"
EmptyHeader == ""
KeyHeaders == PresentedKeys \cup {NoHeader, EmptyHeader}

\* how one call to DynamoDB / Bedrock can end: it answers, the service
\* rejects it (botocore ClientError), or the transport fails (a botocore
\* BotoCoreError such as EndpointConnectionError, which is not a ClientError)
StorageFaults == {"none", "ClientError", "EndpointConnectionError"}

NoTeam == [team_id |-> "", team_name |-> "", rate_limit_rpm |-> 0]
None == [is_none |-> TRUE, team |-> NoTeam]
TeamInfo(t) == [is_none |-> FALSE, team |-> t]

\* datetime.fromisoformat(expires_at) < datetime.now(timezone.utc)
ExpiryCheck(expires_at, now) ==
  CASE expires_at.format = "malformed" -> Raise("ValueError")
    [] expires_at.format = "naive"     -> Raise("TypeError")
    [] OTHER                           -> Return(expires_at.at < now)

\* the try block of validate_api_key
validate_api_key_try(api_key, fault, now) ==
  IF fault # "none" THEN Raise(fault)
  ELSE IF api_key \notin DOMAIN ApiKeysTable THEN Return(None)
  ELSE LET item == ApiKeysTable[api_key] IN
    IF ~ get(item, "is_active", TRUE) THEN Return(None)
    ELSE LET expired == IF "expires_at" \in DOMAIN item
                          THEN ExpiryCheck(item.expires_at, now)
                          ELSE Return(FALSE) IN
      IF expired.tag = "raise" THEN Raise(expired.exc)
      ELSE IF expired.value THEN Return(None)
      ELSE IF "team_id" \notin DOMAIN item THEN Raise("KeyError")
      ELSE Return(TeamInfo([team_id |-> item.team_id,
                            team_name |-> get(item, "team_name", "Unknown"),
                            rate_limit_rpm |-> get(item, "rate_limit_rpm", RATE_LIMIT_RPM)]))

\* the except clauses of validate_api_key
ValidateCatches == {"ClientError", "KeyError", "ValueError"}

validate_api_key(api_key, fault, now) ==
  LET r == validate_api_key_try(api_key, fault, now) IN
  IF r.tag = "raise" /\ r.exc \in ValidateCatches THEN Return(None) ELSE r

\* ------------------------------------------------------------- rate limits table
\* minute_key = f"{team_id}:{now // 60}"
\* a key without the minute: one bucket per team for all time
minute_key_NoWindow(team_id, now) == <<team_id, 0>>

minute_key(team_id, now) == <<team_id, now>>

\* SET request_count = :inc, a write that forgets the stored count
if_not_exists_Forget(table, key) == 0

\* SET request_count = if_not_exists(request_count, :zero) + :inc, one atomic
\* update_item; ReturnValues UPDATED_NEW hands back the new count
if_not_exists(table, key) == IF key \in DOMAIN table THEN table[key] ELSE 0

\* an update that is not confined to the item of its Key
update_request_count_All(table, key) ==
  [k \in DOMAIN table \cup {key} |-> if_not_exists(table, k) + 1]

update_request_count(table, key) ==
  [k \in DOMAIN table \cup {key} |->
     IF k = key THEN if_not_exists(table, key) + 1 ELSE table[k]]

\* the comparison off by one
WithinLimit_Strict(count, limit_rpm) == count < limit_rpm

WithinLimit(count, limit_rpm) == count <= limit_rpm

RateLimitCatches == {"ClientError", "KeyError", "ValueError"}

\* a check that counts only the requests it allows
check_rate_limit_CountAllowed(team_id, limit_rpm, fault, now, table) ==
  IF fault # "none"
    THEN IF fault \in RateLimitCatches
           THEN Return([allowed |-> TRUE, table |-> table])
           ELSE [tag |-> "raise", exc |-> fault, value |-> [allowed |-> FALSE, table |-> table]]
    ELSE LET new == update_request_count(table, minute_key(team_id, now))
             ok == WithinLimit(new[minute_key(team_id, now)], limit_rpm) IN
         Return([allowed |-> ok, table |-> IF ok THEN new ELSE table])

\* check_rate_limit: value is [allowed, table] - its verdict and the table
\* after the call
check_rate_limit(team_id, limit_rpm, fault, now, table) ==
  IF fault # "none"
    THEN IF fault \in RateLimitCatches
           THEN Return([allowed |-> TRUE, table |-> table])
           ELSE [tag |-> "raise", exc |-> fault, value |-> [allowed |-> FALSE, table |-> table]]
    ELSE LET new == update_request_count(table, minute_key(team_id, now)) IN
         Return([allowed |-> WithinLimit(new[minute_key(team_id, now)], limit_rpm),
                 table |-> new])

\* ------------------------------------------------------------- the chat request
\* A JSON value of the request body keeps its JSON type in `t`:
\* "absent" (no such field), "null", "str", "list", "object"; `v` holds the
\* entries of a list, and for a string or an object only whether it is empty.
Roles == {"system", "user", "assistant"}

UserMsg == [obj |-> TRUE, role |-> "user", content |-> "hello"]
SystemMsg == [obj |-> TRUE, role |-> "system", content |-> "be brief"]
SystemMsg2 == [obj |-> TRUE, role |-> "system", content |-> "be kind"]
AssistantMsg == [obj |-> TRUE, role |-> "assistant", content |-> "hi"]
NotObjectMsg == [obj |-> FALSE]
NoRoleMsg == [obj |-> TRUE, content |-> "hello"]
BadRoleMsg == [obj |-> TRUE, role |-> "invalid_role", content |-> "hello"]
NoContentMsg == [obj |-> TRUE, role |-> "user"]

MsgValues == {UserMsg, SystemMsg, SystemMsg2, AssistantMsg, NotObjectMsg, NoRoleMsg,
              BadRoleMsg, NoContentMsg}

SeqsUpTo(S, n) == UNION {[1..k -> S] : k \in 0..n}

MessagesValue(t, v) == [t |-> t, v |-> v]
ModelValue(t, v) == [t |-> t, v |-> v]

\* body.get('messages', []) and `not messages` / isinstance(messages, list)
body_messages(body) ==
  IF body.messages.t = "absent" THEN MessagesValue("list", <<>>) ELSE body.messages

falsy(value) == value.t = "null" \/ (value.t \in {"list", "str", "object"} /\ value.v = <<>>)

\* the per-message checks of the validation loop, in the code's order;
\* "" when the message passes
message_error(msg) ==
  CASE ~ msg.obj                  -> "must be an object."
    [] "role" \notin DOMAIN msg    -> "missing required field: role"
    [] msg.role \notin Roles       -> "Invalid role"
    [] "content" \notin DOMAIN msg -> "missing required field: content"
    [] OTHER                       -> ""

\* the validation of messages in chat_completion: the 400 message of the
\* first check that fails, Text("") when all pass
validate_messages(messages) ==
  IF falsy(messages) THEN Text("Messages array is required.")
  ELSE IF messages.t # "list" THEN Text("Messages must be an array.")
  ELSE LET bad == {i \in 1..Len(messages.v) : message_error(messages.v[i]) # ""} IN
       IF bad = {} THEN Text("")
       ELSE LET i == CHOOSE j \in bad : \A k \in bad : j <= k IN
            TextAt(message_error(messages.v[i]), i - 1)

\* body.get('model', 'nova-micro')
body_model(body) ==
  IF body.model.t = "absent" THEN ModelValue("str", <<"nova-micro">>) ELSE body.model

\* model_id = MODEL_MAPPING.get(model_name, model_name): a list or an object
\* is unhashable
resolve_model(model_name) ==
  CASE model_name.t \in {"list", "object"} -> Raise("TypeError")
    [] model_name.t = "str" /\ model_name.v \in DOMAIN MODEL_MAPPING
                                            -> Return(MODEL_MAPPING[model_name.v])
    [] OTHER                                -> Return(model_name.v)

\* model_id not in MODEL_PRICING
known_model(model_name, model_id) ==
  model_name.t = "str" /\ model_id \in DOMAIN MODEL_PRICING

\* the elif chain testing 'amazon.' where it tests 'amazon.nova': Titan ids
\* are taken for Nova ids
provider_family_AmazonIsNova(model_id) ==
  CASE startswith(model_id, <<"anthropic", ".">>) -> "anthropic"
    [] startswith(model_id, <<"amazon", ".">>)    -> "nova"
    [] OTHER                                      -> "unsupported"

\* the provider family the if/elif chain on model_id selects
provider_family(model_id) ==
  CASE startswith(model_id, <<"anthropic", ".">>)      -> "anthropic"
    [] startswith(model_id, <<"amazon", ".", "nova">>) -> "nova"
    [] startswith(model_id, <<"amazon", ".">>)         -> "titan"
    [] OTHER                                           -> "unsupported"

\* body.get('stream', False) and `if stream:`
body_stream(body) == body.stream.t = "true"

\* chat_completion up to the backend call: Return("dispatch") when the request
\* goes to a backend, Return(error_response) when it is refused, Raise when an
\* exception leaves chat_completion (lines 158-185 are outside its try)
chat_completion_checks(body) ==
  IF body.kind # "object" THEN Raise("AttributeError")
  ELSE LET err == validate_messages(body_messages(body))
           model_name == body_model(body)
           model_id == resolve_model(model_name) IN
    IF err.text # "" THEN Return(error_response(400, err))
    ELSE IF model_id.tag = "raise" THEN Raise(model_id.exc)
    ELSE IF ~ known_model(model_name, model_id.value)
      THEN Return(error_response(400, TextOf("Unknown model", model_name.v)))
    ELSE IF body_stream(body) /\ provider_family(model_id.value) = "titan"
      THEN Return(error_response(400, TextOf("Streaming not supported for model", model_name.v)))
    ELSE IF provider_family(model_id.value) = "unsupported"
      THEN Return(error_response(400, TextOf("Unsupported model provider for", model_id.value)))
    ELSE Return(NoResponse)

\* json.loads(event.get('body', '{}'))
json_loads_body(body) ==
  CASE body.kind = "null"         -> Raise("TypeError")
    [] body.kind = "invalid_json" -> Raise("JSONDecodeError")
    [] body.kind = "missing"      -> Return([body EXCEPT !.kind = "object"])
    [] OTHER                      -> Return(body)

\* ------------------------------------------------------------- provider adapters
\* One backend reply to invoke_model: how the call ends (fault), whether the
\* payload decodes and has the expected fields (shape), and what it carries.
\* A Titan payload carries the count of the prompt's tokens at its top level
\* (input_tokens here) and, optionally, results[0].tokenCount, the count of
\* the tokens generated (token_count here); its output_tokens is not used.
SyncReply(fault, shape, text, i, o, has_count, count) ==
  [fault |-> fault, shape |-> shape, text |-> text, input_tokens |-> i,
   output_tokens |-> o, has_token_count |-> has_count, token_count |-> count]

\* One backend reply to invoke_model_with_response_stream: how the call ends
\* and the raw events of the stream
StreamReply(fault, raw) == [fault |-> fault, raw |-> raw]

BackendFaults == {"none", "ClientError", "ReadTimeoutError"}

\* what is wrong with a reply: the exception of the call, or of the stream at
\* some point (botocore's EventStreamError, a ClientError), or the defect of
\* its payload ("none" for a sound reply)
RECURSIVE RawDefect(_, _)
RawDefect(raw, i) ==
  IF i > Len(raw) THEN "none"
  ELSE CASE raw[i].kind = "error"    -> "EventStreamError"
         [] raw[i].kind = "bad_json" -> "not_json"
         [] raw[i].kind = "bare"     -> "missing_fields"
         [] OTHER                    -> RawDefect(raw, i + 1)
ReplyDefect(stream, reply) ==
  IF reply.fault # "none" THEN reply.fault
  ELSE IF stream THEN RawDefect(reply.raw, 1)
  ELSE IF reply.shape # "ok" THEN reply.shape
  ELSE "none"

\* what an adapter hands to chat_completion: content and token counts; for a
\* stream also the chunks the generator yielded and the SSE events built
CompletionResult(content, i, o, events) ==
  [content |-> content, input_tokens |-> i, output_tokens |-> o, events |-> events,
   chunks |-> <<>>, cost |-> 0, estimated |-> FALSE]

\* len(text.split())
WordCount(text) ==
  CASE text = ""         -> 0
    [] text = "be brief" -> 2
    [] text = "be kind"  -> 2
    [] OTHER             -> 1

RECURSIVE SumWords(_, _)
SumWords(msgs, i) ==
  IF i > Len(msgs) THEN 0
  ELSE LET m == msgs[i]
           c == WordCount(get(m, "content", ""))
           role == get(m, "role", "user") IN
       (IF role = "system" THEN c ELSE 1 + c) + SumWords(msgs, i + 1)

\* words of the Titan prompt: the system text, a "User:" / "Assistant:" tag
\* and the content per turn, and the trailing "Assistant:" cue
titan_prompt_words(messages) == SumWords(messages, 1) + 1

\* int(words * 1.3)
estimate_tokens(words) == (words * 13) \div 10

\* --- the request payload
\* What an adapter puts in the body of the backend call: the system texts, in
\* the order they stand in the payload, and the turns.
Payload(system, turns) == [system |-> system, turns |-> turns]
NoPayload == Payload(<<>>, <<>>)
Turn(msg) == [role |-> get(msg, "role", "user"), content |-> get(msg, "content", "")]

\* the loop of the Anthropic and Nova adapters: system_prompt = content for a
\* system message, formatted_messages.append(...) for any other
RECURSIVE format_messages(_, _, _)
format_messages(messages, i, acc) ==
  IF i > Len(messages) THEN acc
  ELSE LET t == Turn(messages[i]) IN
       format_messages(messages, i + 1,
         IF t.role = "system" THEN [acc EXCEPT !.system = <<t.content>>]
                              ELSE [acc EXCEPT !.turns = Append(@, t)])

\* request_body of call_anthropic_model / stream_anthropic_model and of the
\* Nova adapters; `if system_prompt:` leaves an empty text out
chat_request_body(messages) ==
  LET f == format_messages(messages, 1, NoPayload) IN
  IF f.system # <<>> /\ f.system[1] = "" THEN [f EXCEPT !.system = <<>>] ELSE f

\* the loop of call_titan_model: prompt = f"{content}\n\n{prompt}" for a
\* system message, prompt += "User: ..." / "Assistant: ..." for the others
RECURSIVE titan_prompt(_, _, _)
titan_prompt(messages, i, acc) ==
  IF i > Len(messages) THEN acc
  ELSE LET t == Turn(messages[i]) IN
       titan_prompt(messages, i + 1,
         IF t.role = "system" THEN [acc EXCEPT !.system = <<t.content>> \o @]
         ELSE IF t.role \in {"user", "assistant"} THEN [acc EXCEPT !.turns = Append(@, t)]
         ELSE acc)

\* the payload of the backend call of a family
request_payload(family, messages) ==
  IF family = "titan" THEN titan_prompt(messages, 1, NoPayload)
                      ELSE chat_request_body(messages)

\* json.loads(response['body'].read()) and the field accesses of the adapter
parse_reply(reply) ==
  CASE reply.fault # "none"            -> Raise(reply.fault)
    [] reply.shape = "not_json"        -> Raise("JSONDecodeError")
    [] reply.shape = "missing_fields"  -> Raise("KeyError")
    [] OTHER                           -> Return(reply)

call_anthropic_model(messages, reply) ==
  LET r == parse_reply(reply) IN
  IF r.tag = "raise" THEN r
  ELSE Return(CompletionResult(<<reply.text>>, reply.input_tokens, reply.output_tokens, <<>>))

call_nova_model(messages, reply) ==
  LET r == parse_reply(reply) IN
  IF r.tag = "raise" THEN r
  ELSE Return(CompletionResult(<<reply.text>>, reply.input_tokens, reply.output_tokens, <<>>))

\* call_titan_model taking the prompt count from inputTextTokenCount
call_titan_model_PromptCount(messages, reply) ==
  LET r == parse_reply(reply) IN
  IF r.tag = "raise" THEN r
  ELSE IF reply.has_token_count
    THEN Return(CompletionResult(<<reply.text>>, reply.input_tokens, reply.token_count, <<>>))
    ELSE Return([CompletionResult(<<reply.text>>,
                                  estimate_tokens(titan_prompt_words(messages)),
                                  estimate_tokens(WordCount(reply.text)), <<>>)
                   EXCEPT !.estimated = TRUE])

call_titan_model(messages, reply) ==
  LET r == parse_reply(reply) IN
  IF r.tag = "raise" THEN r
  ELSE IF reply.has_token_count
    THEN Return(CompletionResult(<<reply.text>>, reply.token_count, reply.token_count, <<>>))
    ELSE Return([CompletionResult(<<reply.text>>,
                                  estimate_tokens(titan_prompt_words(messages)),
                                  estimate_tokens(WordCount(reply.text)), <<>>)
                   EXCEPT !.estimated = TRUE])

\* --- streaming
\* A raw event of the backend stream.  kind: "chunk" (a JSON chunk of the given
\* type), "bare" (a JSON chunk of the given type without the fields the
\* adapter reads from it), "other" (an event without a 'chunk' key), "bad_json"
\* (a chunk that does not decode), "error" (the stream raises a ClientError at
\* this point).
RawEvent(kind, type, text, i, o) ==
  [kind |-> kind, type |-> type, text |-> text, input_tokens |-> i, output_tokens |-> o]

\* a chunk a generator yields; `carries` names the token counts among its keys
StreamEvent(type, text, i, o, carries) ==
  [type |-> type, text |-> text, input_tokens |-> i, output_tokens |-> o,
   carries |-> carries]

\* what one chunk of the Anthropic stream yields: a sequence of 0 or 1 events
\* (every field is read with .get and a default: a bare chunk yields zeros, a
\* delta that is not a text_delta yields nothing)
anthropic_chunk(c) ==
  CASE c.type = "message_start" ->
         <<StreamEvent("message_start", "", IF c.kind = "bare" THEN 0 ELSE c.input_tokens, 0,
                       {"input_tokens"})>>
    [] c.type = "content_block_delta" ->
         IF c.kind = "bare" THEN <<>> ELSE <<StreamEvent("content_delta", c.text, 0, 0, {})>>
    [] c.type = "message_delta" ->
         <<StreamEvent("message_delta", "", 0, IF c.kind = "bare" THEN 0 ELSE c.output_tokens,
                       {"output_tokens"})>>
    [] c.type = "message_stop"        -> <<StreamEvent("message_stop", "", 0, 0, {})>>
    [] OTHER                          -> <<>>

\* what one chunk of the Nova stream yields
\* (a delta without 'text' yields nothing, a metadata without usage zeros)
nova_chunk(c) ==
  CASE c.type = "contentBlockDelta" ->
         IF c.kind = "bare" THEN <<>> ELSE <<StreamEvent("content_delta", c.text, 0, 0, {})>>
    [] c.type = "messageStart"      -> <<StreamEvent("message_start", "", 0, 0, {"input_tokens"})>>
    [] c.type = "messageStop"       -> <<StreamEvent("message_stop", "", 0, 0, {})>>
    [] c.type = "metadata" ->
         <<StreamEvent("message_delta", "", IF c.kind = "bare" THEN 0 ELSE c.input_tokens,
                       IF c.kind = "bare" THEN 0 ELSE c.output_tokens,
                       {"input_tokens", "output_tokens"})>>
    [] OTHER                        -> <<>>

\* the generator over response['body']: the events yielded, and the exception
\* ("" if none) that ends the iteration
RECURSIVE stream_model(_, _, _)
stream_model(family, raw, i) ==
  IF i > Len(raw) THEN [events |-> <<>>, exc |-> ""]
  ELSE LET e == raw[i] IN
    CASE e.kind = "error"    -> [events |-> <<>>, exc |-> "ClientError"]
      [] e.kind = "bad_json" -> [events |-> <<>>, exc |-> "JSONDecodeError"]
      [] e.kind = "other"    -> stream_model(family, raw, i + 1)
      [] OTHER ->
           LET rest == stream_model(family, raw, i + 1)
               out == IF family = "anthropic" THEN anthropic_chunk(e) ELSE nova_chunk(e) IN
           [events |-> out \o rest.events, exc |-> rest.exc]

stream_anthropic_model(raw) == stream_model("anthropic", raw, 1)
stream_nova_model(raw) == stream_model("nova", raw, 1)

\* the loop of chat_completion_stream over the chunks: the SSE events appended
\* and the token counts kept
RECURSIVE fold_chunks(_, _, _)
fold_chunks(chunks, i, acc) ==
  IF i > Len(chunks) THEN acc
  ELSE LET c == chunks[i] IN
    fold_chunks(chunks, i + 1,
      CASE c.type = "content_delta" ->
             [acc EXCEPT !.content = @ \o <<c.text>>,
                         !.events = Append(@, [kind |-> "content", text |-> c.text])]
        [] c.type = "message_start" -> [acc EXCEPT !.input_tokens = c.input_tokens]
        [] c.type = "message_delta" -> [acc EXCEPT !.output_tokens = c.output_tokens]
        [] c.type = "message_stop" ->
             [acc EXCEPT !.events = Append(@, [kind |-> "finish", text |-> ""])]
        [] OTHER -> acc)

DoneMarker == [kind |-> "DONE", text |-> ""]

\* chat_completion_stream putting the [DONE] marker before the events
stream_completion_DoneFirst(family, reply) ==
  IF reply.fault # "none" THEN Raise(reply.fault)
  ELSE LET s == IF family = "anthropic" THEN stream_anthropic_model(reply.raw)
                                       ELSE stream_nova_model(reply.raw) IN
    IF s.exc # "" THEN Raise(s.exc)
    ELSE LET acc == fold_chunks(s.events, 1, CompletionResult(<<>>, 0, 0, <<>>)) IN
         Return([acc EXCEPT !.events = <<DoneMarker>> \o @, !.chunks = s.events])

\* chat_completion_stream from the generator call to the [DONE] marker
stream_completion(family, reply) ==
  IF reply.fault # "none" THEN Raise(reply.fault)
  ELSE LET s == IF family = "anthropic" THEN stream_anthropic_model(reply.raw)
                                       ELSE stream_nova_model(reply.raw) IN
    IF s.exc # "" THEN Raise(s.exc)
    ELSE LET acc == fold_chunks(s.events, 1, CompletionResult(<<>>, 0, 0, <<>>)) IN
         Return([acc EXCEPT !.events = Append(@, DoneMarker), !.chunks = s.events])

\* the adapter chat_completion / chat_completion_stream selects
invoke(family, stream, messages, reply) ==
  IF stream THEN stream_completion(family, reply)
  ELSE CASE family = "anthropic" -> call_anthropic_model(messages, reply)
         [] family = "nova"      -> call_nova_model(messages, reply)
         [] OTHER                -> call_titan_model(messages, reply)

\* except clauses that hand the caller the events built so far, closed by the
\* [DONE] marker, with the status of the error
invocation_error_WithEvents(stream, exc) ==
  IF exc \in {"ClientError", "KeyError", "IndexError", "JSONDecodeError"}
    THEN [error_response(500, Text("Streaming invocation failed"))
            EXCEPT !.body = [NoBody EXCEPT !.events = <<DoneMarker>>]]
    ELSE unhandled(exc)

\* the except clauses around the backend call: chat_completion_stream catches
\* ClientError, chat_completion (which encloses it) catches the rest
invocation_error(stream, exc) ==
  CASE exc = "ClientError" /\ stream  -> error_response(500, Text("Streaming invocation failed"))
    [] exc = "ClientError"            -> error_response(500, Text("Model invocation failed"))
    [] exc \in {"KeyError", "IndexError"}
                                      -> error_response(500, Text("Unexpected response format from model"))
    [] exc = "JSONDecodeError"        -> error_response(500, Text("Invalid response from model"))
    [] OTHER                          -> unhandled(exc)

\* ------------------------------------------------------------- usage table
\* the cost expression with the two prices exchanged
cost_of_Swapped(model_id, input_tokens, output_tokens) ==
  LET pricing == MODEL_PRICING[model_id] IN
  input_tokens * pricing.output + output_tokens * pricing.input

\* cost = input_tokens / 1000 * price_input + output_tokens / 1000 * price_output,
\* in 10^-9 dollars
cost_of(model_id, input_tokens, output_tokens) ==
  LET pricing == MODEL_PRICING[model_id] IN
  input_tokens * pricing.input + output_tokens * pricing.output

\* round(cost, 6): 10^-9 dollars to 10^-6 dollars, half to even.  When the
\* exact cost is half-way between two values the binary float of the code
\* decides; the token counts of this model give no such cost, and on them this
\* operator agrees with round() of the float expression.
round6(nano) ==
  LET q == nano \div 1000
      r == nano % 1000 IN
  IF r * 2 < 1000 THEN q
  ELSE IF r * 2 > 1000 THEN q + 1
  ELSE IF q % 2 = 0 THEN q ELSE q + 1

MinutesPerDay == 1440
\* datetime.now(timezone.utc).strftime('%Y-%m-%d'), as a day number
today(now) == now \div MinutesPerDay

NoModels == [n \in {} |-> 0]
\* a usage item; has_models tells whether it has the `models` map attribute
UsageRow(requests, i, o, cost, has_models, models) ==
  [requests |-> requests, input_tokens |-> i, output_tokens |-> o,
   total_cost |-> cost, has_models |-> has_models, models |-> models]

\* The SET expression of track_usage.  Each attribute is
\* if_not_exists(attr, 0) + delta; the path models.#model addresses an entry of
\* the map attribute `models`, which DynamoDB accepts only when the item has
\* that map (otherwise the update is rejected: a ClientError).
RowHasModelsMap(table, key) == key \in DOMAIN table /\ table[key].has_models

\* the SET expression writing the request's own numbers over the stored ones
update_usage_row_Overwrite(table, key, model, input_tokens, output_tokens, cost) ==
  LET old == table[key] IN
  [table EXCEPT ![key] =
     [old EXCEPT !.requests = 1, !.input_tokens = input_tokens,
                 !.output_tokens = output_tokens, !.total_cost = cost,
                 !.models = [n \in DOMAIN old.models \cup {model} |->
                               IF n = model THEN 1 ELSE old.models[n]]]]

update_usage_row(table, key, model, input_tokens, output_tokens, cost) ==
  LET old == table[key]
      row == [old EXCEPT
                !.requests = @ + 1,
                !.input_tokens = @ + input_tokens,
                !.output_tokens = @ + output_tokens,
                !.total_cost = @ + cost,
                !.models = [n \in DOMAIN old.models \cup {model} |->
                              IF n = model
                                THEN (IF n \in DOMAIN old.models THEN old.models[n] ELSE 0) + 1
                                ELSE old.models[n]]] IN
  [table EXCEPT ![key] = row]

TrackCatches == {"ClientError"}

\* track_usage: the usage table after the call, or the exception that leaves it
track_usage(table, team_id, model, input_tokens, output_tokens, cost, fault, now) ==
  LET key == <<team_id, today(now)>>
      exc == IF fault # "none" THEN fault
             ELSE IF ~ RowHasModelsMap(table, key) THEN "ClientError"
             ELSE "" IN
  IF exc = "" THEN Return(update_usage_row(table, key, model, input_tokens,
                                           output_tokens, round6(cost)))
  ELSE IF exc \in TrackCatches THEN Return(table)
  ELSE [tag |-> "raise", exc |-> exc, value |-> table]

\* ------------------------------------------------------------- usage handler
\* (src/lambda/usage/handler.py)
\* a quotient the handler computes with /, kept as numerator and denominator
Ratio(n, d) == [num |-> n, den |-> d]
Zero == Ratio(0, 1)

Summary(requests, i, o, cost, avg_daily_cost, avg_tokens) ==
  [total_requests |-> requests, total_input_tokens |-> i, total_output_tokens |-> o,
   total_tokens |-> i + o, total_cost_usd |-> cost, avg_daily_cost_usd |-> avg_daily_cost,
   avg_tokens_per_request |-> avg_tokens]
UsageData(summary, daily, by_model) ==
  [summary |-> summary, daily |-> daily, by_model |-> by_model]
\* what get_usage returns from its except clauses
ZeroUsage == UsageData(Summary(0, 0, 0, 0, Zero, Zero), <<>>, <<>>)

\* a response of the usage handler
UsageResponse(kind, status_code, message, team_id, team_name, days, data) ==
  [kind |-> kind, statusCode |-> status_code, message |-> message, team_id |-> team_id,
   team_name |-> team_name, days |-> days, data |-> data]
NoUsageResponse == UsageResponse("none", 0, "", "", "", 0, ZeroUsage)
usage_error_response(status_code, message) ==
  UsageResponse("response", status_code, message, "", "", 0, ZeroUsage)
usage_unhandled(exc) == UsageResponse("exception", 0, exc, "", "", 0, ZeroUsage)

\* get_team_from_key: the stored item, whatever its is_active and expires_at
NoItem == [found |-> FALSE, item |-> [n \in {} |-> 0]]
TeamCatches == {"ClientError", "KeyError", "ValueError"}
get_team_from_key(api_key, fault) ==
  IF fault # "none"
    THEN (IF fault \in TeamCatches THEN Return(NoItem) ELSE Raise(fault))
  ELSE IF api_key \in DOMAIN ApiKeysTable
    THEN Return([found |-> TRUE, item |-> ApiKeysTable[api_key]])
  ELSE Return(NoItem)

\* the days query parameter: absent, a decimal text, or any other text
NoDays == [t |-> "absent", v |-> 0]
DaysText(n) == [t |-> "int", v |-> n]
BadDays == [t |-> "text", v |-> 0]
\* int(params.get('days', 30))
parse_days(days) ==
  CASE days.t = "absent" -> Return(30)
    [] days.t = "int"    -> Return(days.v)
    [] OTHER             -> Raise("ValueError")

\* table.query: the items of the team dated in [start, end], by ascending date
RECURSIVE query_items(_, _, _, _)
query_items(table, team_id, start, end) ==
  IF start > end THEN <<>>
  ELSE (IF <<team_id, start>> \in DOMAIN table
          THEN <<[date |-> start, item |-> table[<<team_id, start>>]]>>
          ELSE <<>>)
       \o query_items(table, team_id, start + 1, end)

\* list.sort / sorted on integer keys: ascending and stable
RECURSIVE StableSort(_, _)
StableSort(seq, keys) ==
  IF seq = <<>> THEN <<>>
  ELSE LET m == CHOOSE i \in 1..Len(seq) :
                  \A j \in 1..Len(seq) : keys[i] < keys[j] \/ (keys[i] = keys[j] /\ i <= j)
           drop(q) == SubSeq(q, 1, m - 1) \o SubSeq(q, m + 1, Len(q)) IN
       <<seq[m]>> \o StableSort(drop(seq), drop(keys))

\* model_usage[model] = model_usage.get(model, 0) + int(count), the dict kept
\* as the sequence of its entries in insertion order
add_model(model_usage, model, count) ==
  IF \E i \in 1..Len(model_usage) : model_usage[i].model = model
    THEN [i \in 1..Len(model_usage) |->
            IF model_usage[i].model = model
              THEN [model_usage[i] EXCEPT !.requests = @ + count]
              ELSE model_usage[i]]
    ELSE Append(model_usage, [model |-> model, requests |-> count])

\* for model, count in item.get('models', {}).items()
RECURSIVE add_models(_, _, _)
add_models(model_usage, models, names) ==
  IF names = {} THEN model_usage
  ELSE LET n == CHOOSE x \in names : TRUE IN
       add_models(add_model(model_usage, n, models[n]), models, names \ {n})

\* the aggregation loop of get_usage over the items
RECURSIVE aggregate(_, _, _)
aggregate(items, i, acc) ==
  IF i > Len(items) THEN acc
  ELSE LET item == items[i].item IN
    aggregate(items, i + 1,
      [requests |-> acc.requests + item.requests,
       input_tokens |-> acc.input_tokens + item.input_tokens,
       output_tokens |-> acc.output_tokens + item.output_tokens,
       cost |-> acc.cost + item.total_cost,
       daily |-> Append(acc.daily,
                        [date |-> items[i].date, requests |-> item.requests,
                         input_tokens |-> item.input_tokens,
                         output_tokens |-> item.output_tokens, cost_usd |-> item.total_cost]),
       model_usage |-> add_models(acc.model_usage, item.models, DOMAIN item.models)])

\* sorted(model_usage.items(), key=lambda x: -x[1]) with the sign of the key lost
sort_models_Ascending(model_usage) ==
  StableSort(model_usage, [i \in 1..Len(model_usage) |-> model_usage[i].requests])

\* sorted(model_usage.items(), key=lambda x: -x[1])
sort_models(model_usage) ==
  StableSort(model_usage, [i \in 1..Len(model_usage) |-> 0 - model_usage[i].requests])

\* daily.sort(key=lambda x: x['date'])
sort_daily(daily) == StableSort(daily, [i \in 1..Len(daily) |-> daily[i].date])

UsageCatches == {"ClientError", "KeyError", "ValueError"}

\* get_usage
get_usage(table, team_id, days, fault, now) ==
  IF fault # "none"
    THEN (IF fault \in UsageCatches THEN Return(ZeroUsage) ELSE Raise(fault))
  ELSE
    LET end_date == today(now)
        start_date == end_date - days
        items == query_items(table, team_id, start_date, end_date)
        a == aggregate(items, 1, [requests |-> 0, input_tokens |-> 0, output_tokens |-> 0,
                                  cost |-> 0, daily |-> <<>>, model_usage |-> <<>>]) IN
    Return(UsageData(
      Summary(a.requests, a.input_tokens, a.output_tokens, a.cost,
              IF days > 0 THEN Ratio(a.cost, days) ELSE Zero,
              IF a.requests > 0 THEN Ratio(a.input_tokens + a.output_tokens, a.requests)
                                ELSE Zero),
      sort_daily(a.daily),
      sort_models(a.model_usage)))

\* ------------------------------------------------------------- inputs
\* request paths, as segments: an optional stage prefix, then the route
Paths == {<<"/health">>, <<"/dev", "/health">>, <<"/staging", "/health">>,
          <<"/prod", "/health">>, <<"/v1/models">>, <<"/v1/chat">>}
Methods == {"GET", "POST"}
Stages == {"/dev", "/staging", "/prod"}

\* lambda_handler without the stage-prefix loop
strip_stage_Keep(path) == path

\* the stage-prefix loop of lambda_handler
strip_stage(path) ==
  IF path # <<>> /\ path[1] \in Stages
    THEN (IF Tail(path) = <<>> THEN <<"/">> ELSE Tail(path))
    ELSE path

Absent == [t |-> "absent", v |-> <<>>]
Body(kind, model, messages, stream) ==
  [kind |-> kind, model |-> model, messages |-> messages, stream |-> stream]
EmptyBody == Body("missing", Absent, Absent, Absent)

ModelValues ==
  {Absent, ModelValue("null", <<>>), ModelValue("list", <<"nova-micro">>),
   ModelValue("str", <<"unknown-model">>),
   ModelValue("str", <<"claude-3-haiku">>), ModelValue("str", <<"nova-micro">>),
   ModelValue("str", <<"titan-text-express">>),
   ModelValue("str", <<"amazon", ".", "nova", "-lite-v1:0">>)}

StreamValues == {Absent, [t |-> "true", v |-> <<>>], [t |-> "false", v |-> <<>>]}

\* the bodies of the sequential specification: every shape of the body, every
\* messages value up to MaxMsgs entries, every model value
RichMessages ==
  {Absent, MessagesValue("null", <<>>), MessagesValue("str", <<NotObjectMsg>>),
   MessagesValue("object", <<NotObjectMsg>>)}
  \cup {MessagesValue("list", v) : v \in SeqsUpTo(MsgValues, MaxMsgs)}

RichBodies ==
  {EmptyBody, Body("null", Absent, Absent, Absent),
   Body("invalid_json", Absent, Absent, Absent),
   Body("non_object", Absent, Absent, Absent)}
  \cup {Body("object", m, msgs, st) :
          m \in ModelValues, msgs \in RichMessages, st \in StreamValues}

\* the bodies of the concurrent specification: a refused request, a
\* synchronous one and a streamed one
CoreBodies ==
  {Body("object", ModelValue("str", <<"claude-3-haiku">>), MessagesValue("list", <<>>), Absent),
   Body("object", ModelValue("str", <<"claude-3-haiku">>), MessagesValue("list", <<UserMsg>>), Absent),
   Body("object", Absent, MessagesValue("list", <<UserMsg>>), [t |-> "true", v |-> <<>>])}

\* the bodies of the key specification: one body per outcome of the checks
\* and per provider family
KeyBodies ==
  CoreBodies \cup
  {Body("invalid_json", Absent, Absent, Absent),
   Body("object", ModelValue("str", <<"unknown-model">>), MessagesValue("list", <<UserMsg>>), Absent),
   Body("object", ModelValue("str", <<"titan-text-express">>),
        MessagesValue("list", <<SystemMsg, UserMsg>>), Absent)}

\* the bodies of the billing specification: a well-formed request per public
\* model, read synchronously and as a stream
BillModels == {<<"claude-3-haiku">>, <<"nova-micro">>, <<"titan-text-express">>}
BillBodies ==
  {Body("object", ModelValue("str", m), MessagesValue("list", <<UserMsg>>), st) :
     m \in BillModels, st \in {Absent, [t |-> "true", v |-> <<>>]}}
  \cup {Body("object", ModelValue("str", <<"titan-text-express">>),
              MessagesValue("list", <<SystemMsg, UserMsg>>), Absent)}

\* backend replies
SyncReplies ==
  {SyncReply("none", "ok", "Hi", 10, 2, FALSE, 0),
   SyncReply("none", "ok", "Hi", 10, 2, TRUE, 2),
   SyncReply("none", "missing_fields", "", 0, 0, FALSE, 0),
   SyncReply("none", "not_json", "", 0, 0, FALSE, 0),
   SyncReply("ClientError", "ok", "", 0, 0, FALSE, 0),
   SyncReply("ReadTimeoutError", "ok", "", 0, 0, FALSE, 0)}

AnthropicStream ==
  <<RawEvent("chunk", "message_start", "", 10, 0),
    RawEvent("chunk", "content_block_delta", "Hi", 0, 0),
    RawEvent("chunk", "message_delta", "", 0, 2),
    RawEvent("chunk", "message_stop", "", 0, 0)>>
NovaStream ==
  <<RawEvent("chunk", "messageStart", "", 0, 0),
    RawEvent("chunk", "contentBlockDelta", "Hi", 0, 0),
    RawEvent("chunk", "messageStop", "", 0, 0),
    RawEvent("chunk", "metadata", "", 10, 2)>>

\* the same streams with the text in two deltas and other token counts
AnthropicStream2 ==
  <<RawEvent("chunk", "message_start", "", 7, 0),
    RawEvent("chunk", "content_block_delta", "Hel", 0, 0),
    RawEvent("chunk", "content_block_delta", "lo", 0, 0),
    RawEvent("chunk", "message_delta", "", 0, 4),
    RawEvent("chunk", "message_stop", "", 0, 0)>>
NovaStream2 ==
  <<RawEvent("chunk", "messageStart", "", 0, 0),
    RawEvent("chunk", "contentBlockDelta", "Hel", 0, 0),
    RawEvent("chunk", "contentBlockDelta", "lo", 0, 0),
    RawEvent("chunk", "messageStop", "", 0, 0),
    RawEvent("chunk", "metadata", "", 7, 4)>>

StreamReplies(family) ==
  LET full == IF family = "anthropic" THEN AnthropicStream ELSE NovaStream IN
  {StreamReply("none", full),
   StreamReply("none", IF family = "anthropic" THEN AnthropicStream2 ELSE NovaStream2),
   StreamReply("none", <<full[1], [full[2] EXCEPT !.kind = "bare"], full[3], full[4]>>),
   StreamReply("none", SubSeq(full, 1, 2) \o <<RawEvent("error", "", "", 0, 0)>>),
   StreamReply("none", SubSeq(full, 1, 2) \o <<RawEvent("bad_json", "", "", 0, 0)>>),
   StreamReply("ClientError", <<>>),
   StreamReply("ReadTimeoutError", <<>>)}

Replies(family, stream) == IF stream THEN StreamReplies(family) ELSE SyncReplies

\* the replies of the specifications that are not about the backend: the call
\* succeeds or the backend refuses it
BasicReplies(family, stream) ==
  IF stream
    THEN {StreamReply("none", IF family = "anthropic" THEN AnthropicStream ELSE NovaStream),
          StreamReply("ClientError", <<>>)}
    ELSE {SyncReply("none", "ok", "Hi", 10, 2, FALSE, 0),
          SyncReply("ClientError", "ok", "", 0, 0, FALSE, 0)}

\* ------------------------------------------------------------- state
VARIABLES
  pc,          \* pc[r]: where invocation r stands in lambda_handler
  req,         \* req[r]: path, method and presented key of the event
  body,        \* body[r]: the event's body, from the moment the handler reads it
  team,        \* team[r]: team_info returned by validate_api_key
  sent,        \* sent[r]: the payload of the backend call of r
  answered,    \* answered[r]: what the backend replied to a synchronous call of r
  result,      \* result[r]: what the adapter returned
  resp,        \* resp[r]: the response of the invocation
  calls,       \* calls[r]: calls r made to key store, rate table, backend, usage table
  faults,      \* faults[r]: how each storage call of r ended, what the backend replied
  stages,      \* stages[r]: the steps of the request state machine r has passed
  rateTable,   \* the rate limits table: minute_key -> request_count
  rateLog,     \* per minute_key, the verdicts of the checks that updated it, in order
  usageTable,  \* the usage table: <<team_id, date>> -> usage item
  usageLog,    \* per <<team_id, date>>: the sums of what the writes of track_usage
               \* that succeeded carried
  query,       \* the invocation of the usage handler: position, event, team, response
  alt,         \* the invocation of the lambda/src handler variant and its rate table
  now,         \* the clock, in minutes
  served       \* requests received so far

vars == <<pc, req, body, team, sent, answered, result, resp, calls, faults, stages, rateTable, rateLog,
          usageTable, usageLog, query, alt, now, served>>

NoCalls == [lookup |-> 0, rate |-> 0, backend |-> 0, usage |-> 0]
NoFaults == [lookup |-> "none", rate |-> "none", backend |-> "none", usage |-> "none"]
Unread == Body("unread", Absent, Absent, Absent)
NoRequest == [path |-> <<>>, method |-> "", key |-> NoHeader]
NoResult == CompletionResult(<<>>, 0, 0, <<>>)
NoReply == SyncReply("none", "", "", 0, 0, FALSE, 0)

\* the usage table at the start: team-b has an item with a `models` map (left
\* by an earlier writer), team-a has no item
SeededUsage == [k \in {<<"team-b", 0>>} |-> UsageRow(0, 0, 0, 0, TRUE, NoModels)]
EmptyTable == [k \in {} |-> 0]

\* --- the handler variant of src/lambda/src (handler.py, auth.py)
\* The keys table as this variant reads it: `active` (create_api_key.py
\* writes it), `expires_at` as an ISO text that is naive (what the comparison
\* with datetime.utcnow() takes) or carries an offset, `rate_limit_per_min`.
SrcKeysTable ==
  [k \in {"src-valid", "src-disabled", "src-expired", "src-aware"} |->
     CASE k = "src-valid" ->
            [team_id |-> "team-a", active |-> TRUE, rate_limit_per_min |-> 1]
       [] k = "src-disabled" ->
            [team_id |-> "team-a", active |-> FALSE, rate_limit_per_min |-> 1]
       [] k = "src-expired" ->
            [team_id |-> "team-a", active |-> TRUE, rate_limit_per_min |-> 1,
             expires_at |-> [format |-> "naive", at |-> -1]]
       [] k = "src-aware" ->
            [team_id |-> "team-a", active |-> TRUE, rate_limit_per_min |-> 1,
             expires_at |-> [format |-> "aware", at |-> -1]]]

SrcKeys == DOMAIN SrcKeysTable \cup {"src-unknown"}
SrcPaths == {"/health", "/v1/models", "/v1/other"}

\* utils.create_response, its body reduced to the error text ("" for 200)
create_response(status_code, error) == [statusCode |-> status_code, error |-> error]
NoSrcResponse == create_response(0, "")

\* the dict validate_api_key returns
AuthResult(valid, error, team_id, rate_limited) ==
  [valid |-> valid, error |-> error, team_id |-> team_id, rate_limited |-> rate_limited]

\* auth.check_rate_limit: one update_item on <<api_key, window>>; value is
\* [rate_limited, counts]; any exception is caught and means not limited
src_check_rate_limit(api_key, limit, fault, window, counts) ==
  IF fault # "none" THEN [rate_limited |-> FALSE, counts |-> counts]
  ELSE LET new == update_request_count(counts, <<api_key, window>>) IN
       [rate_limited |-> new[<<api_key, window>>] > limit, counts |-> new]

\* validate_api_key replying 'Invalid API key' whatever it finds wrong
src_validate_api_key_Uniform(api_key, fault, rate_fault, window, counts) ==
  IF fault # "none" \/ api_key \notin DOMAIN SrcKeysTable
     \/ ~ get(SrcKeysTable[api_key], "active", TRUE)
     \/ "expires_at" \in DOMAIN SrcKeysTable[api_key]
    THEN [auth |-> AuthResult(FALSE, "Invalid API key", "", FALSE), counts |-> counts]
  ELSE LET item == SrcKeysTable[api_key]
           c == src_check_rate_limit(api_key, item.rate_limit_per_min, rate_fault,
                                     window, counts) IN
       [auth |-> AuthResult(TRUE, "", item.team_id, c.rate_limited), counts |-> c.counts]

\* auth.validate_api_key, lines 12-38: value is [auth, counts] - the dict it
\* returns and the rate table after the call
src_validate_api_key(api_key, fault, rate_fault, window, counts) ==
  IF fault # "none"
    THEN [auth |-> AuthResult(FALSE, "Authentication error", "", FALSE), counts |-> counts]
  ELSE IF api_key \notin DOMAIN SrcKeysTable
    THEN [auth |-> AuthResult(FALSE, "Invalid API key", "", FALSE), counts |-> counts]
  ELSE LET item == SrcKeysTable[api_key] IN
    IF ~ get(item, "active", TRUE)
      THEN [auth |-> AuthResult(FALSE, "API key disabled", "", FALSE), counts |-> counts]
    ELSE IF "expires_at" \in DOMAIN item /\ item.expires_at.format # "naive"
      \* an offset-aware or malformed text: TypeError / ValueError, caught at 36
      THEN [auth |-> AuthResult(FALSE, "Authentication error", "", FALSE), counts |-> counts]
    ELSE IF "expires_at" \in DOMAIN item /\ item.expires_at.at < window
      THEN [auth |-> AuthResult(FALSE, "API key expired", "", FALSE), counts |-> counts]
    ELSE LET c == src_check_rate_limit(api_key, get(item, "rate_limit_per_min", RATE_LIMIT_RPM),
                                       rate_fault, window, counts) IN
         [auth |-> AuthResult(TRUE, "", item.team_id, c.rate_limited), counts |-> c.counts]

\* the variant before its first event
NoAlt == [pc |-> "idle", key |-> NoHeader, path |-> "", resp |-> NoSrcResponse,
          auth |-> AuthResult(FALSE, "", "", FALSE), fault |-> "none",
          counts |-> EmptyTable, served |-> 0]

\* the usage handler before its first event
NoQuery == [pc |-> "idle", key |-> NoHeader, days |-> NoDays, team_id |-> "",
            team_name |-> "", ndays |-> 0, resp |-> NoUsageResponse,
            faults |-> [lookup |-> "none", query |-> "none"]]

Init ==
  /\ query = NoQuery
  /\ alt = NoAlt
  /\ pc = [r \in Reqs |-> "idle"]
  /\ req = [r \in Reqs |-> NoRequest]
  /\ body = [r \in Reqs |-> Unread]
  /\ team = [r \in Reqs |-> NoTeam]
  /\ sent = [r \in Reqs |-> NoPayload]
  /\ answered = [r \in Reqs |-> NoReply]
  /\ result = [r \in Reqs |-> NoResult]
  /\ resp = [r \in Reqs |-> NoResponse]
  /\ calls = [r \in Reqs |-> NoCalls]
  /\ faults = [r \in Reqs |-> NoFaults]
  /\ stages = [r \in Reqs |-> <<>>]
  /\ rateTable = EmptyTable
  /\ rateLog = EmptyTable
  /\ usageTable = SeededUsage
  /\ usageLog = EmptyTable
  /\ now = 0
  /\ served = 0

\* the invocation ends with response x
Finish(r, x) ==
  /\ pc' = [pc EXCEPT ![r] = "done"]
  /\ resp' = [resp EXCEPT ![r] = x]

\* ------------------------------------------------------------- lambda_handler
\* Lines 84-107: a new event arrives at a free invocation slot; the stage
\* prefix is stripped, /health is answered, the key header is read.
Receive(r, in) ==
  /\ pc[r] \in {"idle", "done"}
  /\ served < MaxServed
  /\ served' = served + 1
  /\ \E path \in in.paths, method \in in.methods, key \in in.keys \cup {NoHeader} :
       /\ strip_stage(path) = <<"/health">> => key = NoHeader
       /\ req' = [req EXCEPT ![r] = [path |-> path, method |-> method, key |-> key]]
       /\ IF strip_stage(path) = <<"/health">>
            THEN Finish(r, ok_response([NoBody EXCEPT !.object = "health"]))
          ELSE IF key \in {NoHeader, EmptyHeader}
            THEN Finish(r, error_response(401, Text("Missing API key. Include x-api-key header.")))
          ELSE /\ pc' = [pc EXCEPT ![r] = "validate"]
               /\ resp' = [resp EXCEPT ![r] = NoResponse]
       /\ stages' = [stages EXCEPT ![r] =
                       IF strip_stage(path) = <<"/health">> THEN <<"Health">>
                       ELSE IF key \in {NoHeader, EmptyHeader} THEN <<"KeyMissing">>
                       ELSE <<>>]
  /\ body' = [body EXCEPT ![r] = Unread]
  /\ team' = [team EXCEPT ![r] = NoTeam]
  /\ sent' = [sent EXCEPT ![r] = NoPayload]
  /\ answered' = [answered EXCEPT ![r] = NoReply]
  /\ result' = [result EXCEPT ![r] = NoResult]
  /\ calls' = [calls EXCEPT ![r] = NoCalls]
  /\ faults' = [faults EXCEPT ![r] = NoFaults]
  /\ UNCHANGED <<rateTable, rateLog, usageTable, usageLog, query, alt, now>>

\* lambda_handler without its `if not team_info` return
AfterValidate_NoReject(team_info) == "ratecheck"

\* lambda_handler going from a valid key straight to the routing
AfterValidate_SkipRate(team_info) == IF team_info.is_none THEN "reject" ELSE "route"

\* where lambda_handler goes after validate_api_key returned team_info
AfterValidate(team_info) == IF team_info.is_none THEN "reject" ELSE "ratecheck"

\* Lines 109-112: validate_api_key, one get_item on the API keys table.
ValidateKey(r) ==
  /\ pc[r] = "validate"
  /\ \E fault \in StorageFaults :
       LET v == validate_api_key(req[r].key, fault, now) IN
       /\ faults' = [faults EXCEPT ![r].lookup = fault]
       /\ stages' = [stages EXCEPT ![r] =
                       Append(@, IF v.tag = "raise" THEN "KeyRaised"
                                 ELSE IF v.value.is_none THEN "KeyRejected"
                                 ELSE "KeyValidated")]
       /\ IF v.tag = "raise"
            THEN /\ Finish(r, unhandled(v.exc))
                 /\ UNCHANGED team
          ELSE IF AfterValidate(v.value) = "reject"
            THEN /\ Finish(r, error_response(401, Text("Invalid API key.")))
                 /\ UNCHANGED team
          ELSE /\ pc' = [pc EXCEPT ![r] = AfterValidate(v.value)]
               /\ team' = [team EXCEPT ![r] = v.value.team]
               /\ UNCHANGED resp
  /\ calls' = [calls EXCEPT ![r].lookup = @ + 1]
  /\ UNCHANGED <<req, body, sent, answered, result, rateTable, rateLog, usageTable, usageLog, query, alt, now,
                 served>>

\* lambda_handler without its `if not check_rate_limit(...)` return
AfterRateCheck_NoReject(allowed) == "route"

\* lambda_handler checking the rate again after a denial
AfterRateCheck_Retry(allowed) == IF allowed THEN "route" ELSE "ratecheck"

\* where lambda_handler goes after check_rate_limit returned allowed
AfterRateCheck(allowed) == IF allowed THEN "route" ELSE "reject"

\* Lines 114-116: check_rate_limit, one update_item on the rate limits table.
CheckRate(r) ==
  /\ pc[r] = "ratecheck"
  /\ \E fault \in StorageFaults :
       LET c == check_rate_limit(team[r].team_id, team[r].rate_limit_rpm, fault, now, rateTable)
           key == minute_key(team[r].team_id, now) IN
       /\ faults' = [faults EXCEPT ![r].rate = fault]
       /\ rateTable' = c.value.table
       /\ rateLog' = IF fault = "none"
                       THEN [k \in DOMAIN rateLog \cup {key} |->
                               IF k = key
                                 THEN Append(IF k \in DOMAIN rateLog THEN rateLog[k] ELSE <<>>,
                                             c.value.allowed)
                                 ELSE rateLog[k]]
                       ELSE rateLog
       /\ stages' = [stages EXCEPT ![r] =
                       Append(@, IF c.tag = "raise" THEN "RateRaised"
                                 ELSE IF c.value.allowed THEN "RateChecked"
                                 ELSE "RateDenied")]
       /\ IF c.tag = "raise"
            THEN Finish(r, unhandled(c.exc))
          ELSE IF AfterRateCheck(c.value.allowed) = "reject"
            THEN Finish(r, error_response(429, Text("Rate limit exceeded. Please slow down.")))
          ELSE /\ pc' = [pc EXCEPT ![r] = AfterRateCheck(c.value.allowed)]
               /\ UNCHANGED resp
  /\ calls' = [calls EXCEPT ![r].rate = @ + 1]
  /\ UNCHANGED <<req, body, team, sent, answered, result, usageTable, usageLog, query, alt, now, served>>

\* Lines 118-125 and chat_completion up to the backend call (154-193, 258-280):
\* routing, json.loads of the body, validation of messages and model.
Route(r, in) ==
  /\ pc[r] = "route"
  /\ LET path == strip_stage(req[r].path) IN
     IF path = <<"/v1/models">> /\ req[r].method = "GET"
       THEN /\ Finish(r, ok_response([NoBody EXCEPT !.object = "list"]))
            /\ UNCHANGED <<body, stages>>
     ELSE IF path = <<"/v1/chat">> /\ req[r].method = "POST"
       THEN \E b \in in.bodies :
              LET parsed == json_loads_body(b)
                  checks == IF parsed.tag = "raise" THEN Raise(parsed.exc)
                            ELSE chat_completion_checks(parsed.value) IN
              /\ body' = [body EXCEPT ![r] = b]
              /\ IF checks.tag = "raise"
                   THEN /\ Finish(r, unhandled(checks.exc))
                        /\ UNCHANGED stages
                 ELSE IF checks.value.kind = "response"
                   THEN /\ Finish(r, checks.value)
                        /\ UNCHANGED stages
                 ELSE /\ pc' = [pc EXCEPT ![r] = "dispatch"]
                      /\ stages' = [stages EXCEPT ![r] = Append(@, "RequestValidated")]
                      /\ UNCHANGED resp
     ELSE /\ Finish(r, error_response(404, Text("Not found")))
          /\ UNCHANGED <<body, stages>>
  /\ UNCHANGED <<req, team, sent, answered, result, calls, faults, rateTable, rateLog, usageTable, usageLog, query, alt, now, served>>

\* the model id and the family of a request that passed the checks
model_id_of(b) == resolve_model(body_model(b)).value
family_of(b) == provider_family(model_id_of(b))

\* Lines 187-203 / 271-323: the backend call (invoke_model or
\* invoke_model_with_response_stream) and the parsing of what it returns.
Invoke(r, in) ==
  /\ pc[r] = "dispatch"
  /\ \E answer \in IF in.replies = "all"
                    THEN Replies(family_of(body[r]), body_stream(body[r]))
                    ELSE BasicReplies(family_of(body[r]), body_stream(body[r])) :
       LET out == invoke(family_of(body[r]), body_stream(body[r]),
                         body_messages(body[r]).v, answer) IN
       /\ IF out.tag = "raise"
            THEN /\ Finish(r, invocation_error(body_stream(body[r]), out.exc))
                 /\ UNCHANGED result
            ELSE /\ pc' = [pc EXCEPT ![r] = "track"]
                 /\ result' = [result EXCEPT ![r] = out.value]
                 /\ UNCHANGED resp
       /\ answered' = [answered EXCEPT ![r] = IF body_stream(body[r]) THEN NoReply ELSE answer]
       /\ faults' = [faults EXCEPT ![r].backend = ReplyDefect(body_stream(body[r]), answer)]
  /\ calls' = [calls EXCEPT ![r].backend = @ + 1]
  /\ sent' = [sent EXCEPT ![r] = request_payload(family_of(body[r]),
                                                 body_messages(body[r]).v)]
  /\ stages' = [stages EXCEPT ![r] = Append(@, "Dispatched")]
  /\ UNCHANGED <<req, body, team, rateTable, rateLog, usageTable, usageLog, query, alt, now, served>>

\* the 200 response of chat_completion / chat_completion_stream
completion_response(b, team_id, res, cost) ==
  ok_response([object |-> IF body_stream(b) THEN "text/event-stream" ELSE "chat.completion",
               model |-> body_model(b).v,
               content |-> res.content,
               input_tokens |-> res.input_tokens,
               output_tokens |-> res.output_tokens,
               total_tokens |-> IF body_stream(b) THEN 0
                                ELSE res.input_tokens + res.output_tokens,
               team_id |-> IF body_stream(b) THEN "" ELSE team_id,
               cost_usd |-> IF body_stream(b) THEN 0 ELSE round6(cost),
               events |-> res.events])

\* one call of track_usage added to the sums kept for a (team_id, date)
NoSums == UsageRow(0, 0, 0, 0, TRUE, NoModels)
AddSums(sums, model, input_tokens, output_tokens, cost) ==
  UsageRow(sums.requests + 1, sums.input_tokens + input_tokens,
           sums.output_tokens + output_tokens, sums.total_cost + cost, TRUE,
           [n \in DOMAIN sums.models \cup {model} |->
              IF n \in DOMAIN sums.models
                THEN sums.models[n] + (IF n = model THEN 1 ELSE 0)
                ELSE 1])
LogUsage(log, key, model, input_tokens, output_tokens, cost) ==
  [k \in DOMAIN log \cup {key} |->
     IF k # key THEN log[k]
     ELSE AddSums(IF key \in DOMAIN log THEN log[key] ELSE NoSums,
                  model, input_tokens, output_tokens, cost)]

\* Lines 204-244 / 325-342: cost, track_usage (one update_item on the usage
\* table) and the response.
TrackUsage(r) ==
  /\ pc[r] = "track"
  /\ \E fault \in StorageFaults :
       LET cost == cost_of(model_id_of(body[r]), result[r].input_tokens, result[r].output_tokens)
           key == <<team[r].team_id, today(now)>>
           t == track_usage(usageTable, team[r].team_id, body_model(body[r]).v,
                            result[r].input_tokens, result[r].output_tokens, cost, fault, now) IN
       /\ faults' = [faults EXCEPT ![r].usage = fault]
       /\ result' = [result EXCEPT ![r].cost = cost]
       /\ usageTable' = t.value
       /\ usageLog' = IF t.value # usageTable
                         THEN LogUsage(usageLog, key, body_model(body[r]).v,
                                       result[r].input_tokens, result[r].output_tokens,
                                       round6(cost))
                         ELSE usageLog
       /\ IF t.tag = "raise"
            THEN Finish(r, invocation_error(body_stream(body[r]), t.exc))
            ELSE Finish(r, completion_response(body[r], team[r].team_id, result[r], cost))
  /\ calls' = [calls EXCEPT ![r].usage = @ + 1]
  /\ stages' = [stages EXCEPT ![r] = Append(@, "Completed")]
  /\ UNCHANGED <<req, body, team, sent, answered, rateTable, rateLog, query, alt, now, served>>

\* a minute passes
Tick ==
  /\ now < MaxWindow
  /\ now' = now + 1
  /\ UNCHANGED <<pc, req, body, team, sent, answered, result, resp, calls, faults, stages, rateTable,
                 rateLog, usageTable, usageLog, query, alt, served>>

\* --- the usage handler (GET /v1/usage)
\* the variables of the gateway handler
gatewayVars == <<pc, req, body, team, sent, answered, result, resp, calls, faults, stages,
                 rateTable, rateLog, usageLog, served>>

\* usage lambda_handler, lines 35-39: the event and its x-api-key header
UsageReceive(keys, days) ==
  /\ query.pc \in {"idle", "done"}
  /\ \E key \in keys, d \in days :
       LET q == [NoQuery EXCEPT !.key = key, !.days = d] IN
       IF key \in {NoHeader, EmptyHeader}
         THEN query' = [q EXCEPT !.pc = "done",
                                 !.resp = usage_error_response(401, "Missing API key")]
         ELSE query' = [q EXCEPT !.pc = "lookup"]
  /\ UNCHANGED <<gatewayVars, usageTable, alt, now>>

\* lines 42-50: get_team_from_key (one get_item), team_info['team_id'] and the
\* days parameter
UsageLookup ==
  /\ query.pc = "lookup"
  /\ \E fault \in StorageFaults :
       LET t == get_team_from_key(query.key, fault)
           d == parse_days(query.days)
           q == [query EXCEPT !.faults.lookup = fault] IN
       IF t.tag = "raise"
         THEN query' = [q EXCEPT !.pc = "done", !.resp = usage_unhandled(t.exc)]
       ELSE IF ~ t.value.found
         THEN query' = [q EXCEPT !.pc = "done",
                                 !.resp = usage_error_response(401, "Invalid API key")]
       ELSE IF "team_id" \notin DOMAIN t.value.item
         THEN query' = [q EXCEPT !.pc = "done", !.resp = usage_unhandled("KeyError")]
       ELSE IF d.tag = "raise"
         THEN query' = [q EXCEPT !.pc = "done", !.resp = usage_unhandled(d.exc)]
       ELSE query' = [q EXCEPT !.pc = "query",
                               !.team_id = t.value.item.team_id,
                               !.team_name = get(t.value.item, "team_name", "Unknown"),
                               !.ndays = d.value]
  /\ UNCHANGED <<gatewayVars, usageTable, alt, now>>

\* lines 53-70: get_usage (one query on the usage table) and the response
UsageQuery ==
  /\ query.pc = "query"
  /\ \E fault \in StorageFaults :
       LET u == get_usage(usageTable, query.team_id, query.ndays, fault, now)
           q == [query EXCEPT !.faults.query = fault] IN
       IF u.tag = "raise"
         THEN query' = [q EXCEPT !.pc = "done", !.resp = usage_unhandled(u.exc)]
         ELSE query' = [q EXCEPT !.pc = "done",
                                 !.resp = UsageResponse("response", 200, "", query.team_id,
                                                        query.team_name, query.ndays, u.value)]
  /\ UNCHANGED <<gatewayVars, usageTable, alt, now>>

\* The inputs a specification draws events from.
Inputs(paths, methods, keys, bodies) ==
  [paths |-> paths, methods |-> methods, keys |-> keys, bodies |-> bodies,
   replies |-> "basic"]
\* the same inputs with every backend reply
AllReplies(in) == [in EXCEPT !.replies = "all"]

\* concurrent invocations: chat requests of two teams
CoreInputs == Inputs({<<"/v1/chat">>}, {"POST"}, {"key-a", "key-b"}, CoreBodies)

\* one invocation at a time: every path, method and key
KeyInputs == Inputs(Paths, Methods, KeyHeaders, KeyBodies)

\* one invocation at a time: every body
ChatInputs == Inputs({<<"/v1/chat">>}, {"POST"}, {"key-a"}, RichBodies)

Step(r, in) ==
  \/ Receive(r, in)
  \/ ValidateKey(r)
  \/ CheckRate(r)
  \/ Route(r, in)
  \/ Invoke(r, in)
  \/ TrackUsage(r)

Next ==
  \/ Tick
  \/ \E r \in Reqs : Step(r, CoreInputs)

Spec == Init /\ [][Next]_vars

NextSeq ==
  \/ Tick
  \/ Step(1, KeyInputs)

SpecSeq == Init /\ [][NextSeq]_vars

\* the handler runs to its end: every call it makes returns or raises, and a
\* backend stream is finite, so a request that has been received keeps
\* taking its steps
SpecSeqFair ==
  SpecSeq /\ WF_vars(ValidateKey(1) \/ CheckRate(1) \/ Route(1, KeyInputs)
                       \/ Invoke(1, KeyInputs) \/ TrackUsage(1))

NextChat ==
  \/ Tick
  \/ Step(1, ChatInputs)

SpecChat == Init /\ [][NextChat]_vars

\* one invocation at a time: chat requests of team-b, whose usage item exists
BillInputs == AllReplies(Inputs({<<"/v1/chat">>}, {"POST"}, {"key-b"}, BillBodies))

NextBill ==
  \/ Tick
  \/ Step(1, BillInputs)

SpecBill == Init /\ [][NextBill]_vars

\* concurrent invocations up to the routing: GET /v1/models under the keys
\* of two teams, team-b under two of its keys
RateInputs == Inputs({<<"/v1/models">>}, {"GET"}, {"key-a", "key-b", "key-b2"}, {EmptyBody})

NextRate ==
  \/ Tick
  \/ \E r \in Reqs :
       \/ Receive(r, RateInputs)
       \/ ValidateKey(r)
       \/ CheckRate(r)
       \/ Route(r, RateInputs)

SpecRate == Init /\ [][NextRate]_vars

\* concurrent chat requests of one team within one minute, on two models
UsageBodies ==
  {Body("object", ModelValue("str", m), MessagesValue("list", <<UserMsg>>), Absent) :
     m \in {<<"claude-3-haiku">>, <<"nova-micro">>}}
UsageInputs == Inputs({<<"/v1/chat">>}, {"POST"}, {"key-b"}, UsageBodies)

NextUsage == \E r \in Reqs : Step(r, UsageInputs)

SpecUsage == Init /\ [][NextUsage]_vars

\* the usage handler alone, over a usage table written on days 0..MaxDay
UsageItems ==
  <<UsageRow(8, 800, 400, 500, TRUE,
             [n \in {<<"claude-3-haiku">>, <<"nova-micro">>} |->
                IF n = <<"nova-micro">> THEN 2 ELSE 6]),
    UsageRow(3, 100, 50, 30, TRUE, [n \in {<<"nova-micro">>} |-> 3]),
    UsageRow(1, 10, 5, 7, FALSE, NoModels)>>
OtherTeamItem == UsageRow(5, 55, 5, 50, TRUE, [n \in {<<"nova-micro">>} |-> 5])
\* one table per choice of an item (0: none) for each day of team-b; team-a
\* has an item on the last day
SeededTables ==
  {[k \in {<<"team-b", d>> : d \in {e \in 0..MaxDay : f[e] # 0}} \cup {<<"team-a", MaxDay>>} |->
      IF k[1] = "team-a" THEN OtherTeamItem ELSE UsageItems[f[k[2]]]] :
     f \in [0..MaxDay -> 0..Len(UsageItems)]}
QueryDays == {NoDays, DaysText(0), DaysText(1), BadDays}

InitQuery ==
  /\ query = NoQuery
  /\ alt = NoAlt
  /\ pc = [r \in Reqs |-> "idle"]
  /\ req = [r \in Reqs |-> NoRequest]
  /\ body = [r \in Reqs |-> Unread]
  /\ team = [r \in Reqs |-> NoTeam]
  /\ sent = [r \in Reqs |-> NoPayload]
  /\ answered = [r \in Reqs |-> NoReply]
  /\ result = [r \in Reqs |-> NoResult]
  /\ resp = [r \in Reqs |-> NoResponse]
  /\ calls = [r \in Reqs |-> NoCalls]
  /\ faults = [r \in Reqs |-> NoFaults]
  /\ stages = [r \in Reqs |-> <<>>]
  /\ rateTable = EmptyTable
  /\ rateLog = EmptyTable
  /\ usageTable \in SeededTables
  /\ usageLog = EmptyTable
  /\ now = MaxDay * MinutesPerDay
  /\ served = 0

NextQuery ==
  \/ UsageReceive(KeyHeaders, QueryDays)
  \/ UsageLookup
  \/ UsageQuery

SpecQuery == InitQuery /\ [][NextQuery]_vars

\* --- the lambda/src handler variant, one invocation at a time
\* handler.py lines 15-28: the event, /health, the x-api-key header
SrcReceive ==
  /\ alt.pc \in {"idle", "done"}
  /\ alt.served < MaxServed
  /\ \E key \in SrcKeys \cup {NoHeader}, path \in SrcPaths :
       LET a == [alt EXCEPT !.key = key, !.path = path, !.resp = NoSrcResponse,
                            !.auth = NoAlt.auth, !.fault = "none",
                            !.served = @ + 1] IN
       IF path = "/health"
         THEN alt' = [a EXCEPT !.pc = "done", !.resp = create_response(200, "")]
       ELSE IF key = NoHeader
         THEN alt' = [a EXCEPT !.pc = "done",
                               !.resp = create_response(401, "Missing x-api-key header")]
       ELSE alt' = [a EXCEPT !.pc = "auth"]
  /\ UNCHANGED <<gatewayVars, usageTable, query, now>>

\* lines 30-35: validate_api_key (the key lookup and, for a key it accepts,
\* the rate check), 401 with the error of the result, 429
SrcAuth ==
  /\ alt.pc = "auth"
  /\ \E fault \in StorageFaults, rate_fault \in {"none", "ClientError"} :
       LET v == src_validate_api_key(alt.key, fault, rate_fault, now, alt.counts)
           a == [alt EXCEPT !.auth = v.auth, !.counts = v.counts, !.fault = fault] IN
       IF ~ v.auth.valid
         THEN alt' = [a EXCEPT !.pc = "done", !.resp = create_response(401, v.auth.error)]
       ELSE IF v.auth.rate_limited
         THEN alt' = [a EXCEPT !.pc = "done",
                               !.resp = create_response(429, "Rate limit exceeded")]
       ELSE alt' = [a EXCEPT !.pc = "route"]
  /\ UNCHANGED <<gatewayVars, usageTable, query, now>>

\* lines 40-72 for the paths without a body: the model list, 404
SrcRoute ==
  /\ alt.pc = "route"
  /\ alt' = [alt EXCEPT !.pc = "done",
                        !.resp = IF alt.path = "/v1/models" THEN create_response(200, "")
                                 ELSE create_response(404, "Unknown path")]
  /\ UNCHANGED <<gatewayVars, usageTable, query, now>>

NextSrc ==
  \/ Tick
  \/ SrcReceive
  \/ SrcAuth
  \/ SrcRoute

SpecSrc == Init /\ [][NextSrc]_vars

\* ------------------------------------------------------------- properties
Range(f) == {f[i] : i \in DOMAIN f}
IsPrefix(p, q) == Len(p) <= Len(q) /\ SubSeq(q, 1, Len(p)) = p
InvalidKey == error_response(401, Text("Invalid API key."))

\* C1: a backend invocation of a request happens only after that request
\* passed key validation, then the rate-limit check, then request validation,
\* each exactly once and in this order.
C1_DispatchOnlyAfterGate ==
  \A r \in Reqs :
    (calls[r].backend > 0 \/ pc[r] \in {"dispatch", "track"}) =>
      /\ IsPrefix(<<"KeyValidated", "RateChecked", "RequestValidated">>, stages[r])
      /\ calls[r].lookup = 1
      /\ calls[r].rate = 1

C1_Witness ==
  \E r \in Reqs :
    /\ pc[r] = "done"
    /\ calls[r].backend = 1
    /\ resp[r].statusCode = 200
    /\ stages[r] = <<"KeyValidated", "RateChecked", "RequestValidated", "Dispatched", "Completed">>

\* C2: a non-health request whose key is missing, or whose key
\* validate_api_key rejects, ends with 401 and has touched neither the rate
\* limits table, nor the backend, nor the usage table.
C2_RejectedKeyChangesNothing ==
  \A r \in Reqs :
    (stages[r] # <<>> /\ stages[r][1] \in {"KeyMissing", "KeyRejected"}) =>
      /\ pc[r] = "done"
      /\ resp[r].kind = "response"
      /\ resp[r].statusCode = 401
      /\ calls[r].rate = 0
      /\ calls[r].backend = 0
      /\ calls[r].usage = 0
      /\ stages[r] \in {<<"KeyMissing">>, <<"KeyRejected">>}

C2_Witness ==
  \E r \in Reqs :
    /\ stages[r] = <<"KeyRejected">>
    /\ req[r].key = "key-inactive"
    /\ strip_stage(req[r].path) = <<"/v1/chat">>
    /\ served = MaxServed
    /\ DOMAIN rateTable # {}

\* the three cases of C3: the key is in no record, its record is switched
\* off, its record's expires_at denotes an instant before the clock's start
UnknownKey(k) == k \notin DOMAIN ApiKeysTable
InactiveKey(k) == k \in DOMAIN ApiKeysTable /\ ~ get(ApiKeysTable[k], "is_active", TRUE)
ExpiredKey(k) ==
  /\ k \in DOMAIN ApiKeysTable
  /\ get(ApiKeysTable[k], "is_active", TRUE)
  /\ "expires_at" \in DOMAIN ApiKeysTable[k]
  /\ ApiKeysTable[k].expires_at.format \in {"aware", "naive"}
  /\ ApiKeysTable[k].expires_at.at < 0

\* C3: a key that is absent from the store, a key with is_active = false and
\* a key whose expires_at is in the past all get the same answer: 401 with the
\* message "Invalid API key.".
C3_UniformRejection ==
  \A r \in Reqs :
    ( /\ calls[r].lookup = 1
      /\ faults[r].lookup = "none"
      /\ UnknownKey(req[r].key) \/ InactiveKey(req[r].key) \/ ExpiredKey(req[r].key) )
    => resp[r] = InvalidKey

\* the stored record of key k cannot be processed
RecordFails(k) == validate_api_key_try(k, "none", 0).tag = "raise"

\* C4: when the key lookup, or the processing of the stored record, fails
\* with any error, the request is refused with the 401 of a rejected key: it
\* goes on to no rate check and no exception leaves the handler.
C4_FailClosed ==
  \A r \in Reqs :
    (calls[r].lookup = 1 /\ (faults[r].lookup # "none" \/ RecordFails(req[r].key))) =>
      /\ pc[r] = "done"
      /\ resp[r] = InvalidKey
      /\ calls[r].rate = 0
      /\ calls[r].backend = 0

\* the limit of a team (every key of a team carries the same limit)
LimitOf(team_id) ==
  LET k == CHOOSE k \in DOMAIN ApiKeysTable :
             get(ApiKeysTable[k], "team_id", "") = team_id IN
  ApiKeysTable[k].rate_limit_rpm

\* C5: in a bucket that started at 0, the i-th check that reached the store
\* was allowed exactly when i <= limit_rpm: the first limit_rpm checks are
\* allowed and the next one is denied.
C5_AllowedUpToLimit ==
  \A k \in DOMAIN rateLog :
    \A i \in 1..Len(rateLog[k]) : rateLog[k][i] = (i <= LimitOf(k[1]))

C5_Witness ==
  \E k \in DOMAIN rateLog :
    /\ Len(rateLog[k]) = LimitOf(k[1]) + 1
    /\ LimitOf(k[1]) > 1
    /\ ~ rateLog[k][Len(rateLog[k])]
    /\ \A i \in 1..LimitOf(k[1]) : rateLog[k][i]

Min(a, b) == IF a < b THEN a ELSE b
Allowed(log) == Cardinality({i \in 1..Len(log) : log[i]})

\* C6: under every interleaving of concurrent rate checks of one team in one
\* window no increment is lost: after n checks reached the store the counter
\* is n and exactly min(n, limit_rpm) of them were allowed.
C6_NoLostIncrement ==
  /\ DOMAIN rateTable = DOMAIN rateLog
  /\ \A k \in DOMAIN rateTable :
       /\ rateTable[k] = Len(rateLog[k])
       /\ Allowed(rateLog[k]) = Min(Len(rateLog[k]), LimitOf(k[1]))

\* two invocations of team-b, under different keys, are past their rate
\* check at the same time, and a third check of the window was denied
C6_Witness ==
  \E k \in DOMAIN rateTable :
    /\ rateTable[k] = 3
    /\ Allowed(rateLog[k]) = 2
    /\ \E r1, r2 \in Reqs :
         /\ req[r1].key = "key-b" /\ pc[r1] = "route"
         /\ req[r2].key = "key-b2" /\ "RateDenied" \in Range(stages[r2])
         /\ team[r1].team_id = k[1] /\ faults[r1].rate = "none"
         /\ faults[r2].rate = "none"

\* C7: on any storage error during the counter update the rate check
\* answers allowed = true and the request goes on; the error reaches the
\* caller neither as an error response nor as an exception.
C7_FailOpen ==
  \A r \in Reqs :
    (calls[r].rate = 1 /\ faults[r].rate # "none") =>
      /\ IsPrefix(<<"KeyValidated", "RateChecked">>, stages[r])
      /\ (Len(stages[r]) = 2 => pc[r] = "route")

\* C8: a request the rate check denies ends with 429: it is routed to no
\* endpoint, its body is never read, no backend call is made and no usage
\* is written.
C8_DeniedIs429 ==
  \A r \in Reqs :
    "RateDenied" \in Range(stages[r]) =>
      /\ pc[r] = "done"
      /\ resp[r].kind = "response"
      /\ resp[r].statusCode = 429
      /\ stages[r] = <<"KeyValidated", "RateDenied">>
      /\ body[r] = Unread
      /\ calls[r].backend = 0
      /\ calls[r].usage = 0

C8_Witness ==
  \E r \in Reqs :
    /\ "RateDenied" \in Range(stages[r])
    /\ resp[r].statusCode = 429
    /\ team[r].team_id = "team-b"
    /\ strip_stage(req[r].path) = <<"/v1/chat">>

\* the request reached chat_completion with a JSON object as its body
ChatRequest(r) == body[r].kind \in {"object", "missing"}
Dispatched(r) == calls[r].backend > 0 \/ pc[r] \in {"dispatch", "track"}
NoBackendCall(r) == calls[r].backend = 0 /\ calls[r].usage = 0

\* messages is a non-empty list of objects, each with a role among system,
\* user, assistant and with a content field
WellFormedMessages(b) ==
  /\ b.messages.t = "list"
  /\ b.messages.v # <<>>
  /\ \A i \in 1..Len(b.messages.v) :
       LET m == b.messages.v[i] IN
       /\ m.obj
       /\ "role" \in DOMAIN m
       /\ m.role \in {"system", "user", "assistant"}
       /\ "content" \in DOMAIN m

\* the request was routed to chat_completion, whatever its body
RoutedToChat(r) == body[r] # Unread

\* C9: a chat request is dispatched only when messages is a non-empty list
\* of well-formed messages; every other chat request ends with 400 and
\* without a backend call.
C9_OnlyWellFormedDispatched ==
  \A r \in Reqs :
    /\ Dispatched(r) => WellFormedMessages(body[r])
    /\ (pc[r] = "done" /\ RoutedToChat(r) /\ ~ WellFormedMessages(body[r])) =>
         /\ resp[r].kind = "response"
         /\ resp[r].statusCode = 400
         /\ NoBackendCall(r)

\* what holds of C9: the claim for the requests whose body is a JSON object
C9_ObjectBodies ==
  \A r \in Reqs :
    /\ Dispatched(r) => WellFormedMessages(body[r])
    /\ (pc[r] = "done" /\ ChatRequest(r) /\ ~ WellFormedMessages(body[r])) =>
         /\ resp[r].kind = "response"
         /\ resp[r].statusCode = 400
         /\ NoBackendCall(r)

\* the model the request names: the field, or the default when it is absent
PublicModel(b) ==
  /\ body_model(b).t = "str"
  /\ body_model(b).v \in DOMAIN MODEL_MAPPING

\* C10: a chat request is dispatched only when its model is a public model
\* name of the registry; every other model value ends with 400 (unknown
\* model) and without a backend call.
C10_OnlyPublicModelDispatched ==
  \A r \in Reqs :
    /\ Dispatched(r) => PublicModel(body[r])
    /\ (pc[r] = "done" /\ ChatRequest(r) /\ WellFormedMessages(body[r])
          /\ ~ PublicModel(body[r])) =>
         /\ resp[r].kind = "response"
         /\ resp[r].statusCode = 400
         /\ resp[r].message.text = "Unknown model"
         /\ NoBackendCall(r)

\* the request names a model of the Titan family and asks for a stream
TitanModel(b) ==
  /\ body_model(b).t = "str"
  /\ body_model(b).v \in {<<"titan-text-express">>, <<"amazon", ".", "titan-text-express-v1">>}
TitanStream(r) ==
  /\ ChatRequest(r)
  /\ WellFormedMessages(body[r])
  /\ TitanModel(body[r])
  /\ body[r].stream.t = "true"

Streamed(r) == result[r].chunks # <<>>
Count(seq, type) == Cardinality({i \in 1..Len(seq) : seq[i].type = type})
Rank(type) ==
  CASE type = "message_start" -> 1
    [] type = "content_delta" -> 2
    [] type = "message_delta" -> 3
    [] OTHER                  -> 4

\* one message_start first, then content_delta events, then at most one
\* message_delta, then one message_stop, which is the last event
InStreamOrder(seq) ==
  /\ Count(seq, "message_start") = 1
  /\ Count(seq, "message_stop") = 1
  /\ Count(seq, "message_delta") <= 1
  /\ seq[1].type = "message_start"
  /\ seq[Len(seq)].type = "message_stop"
  /\ \A i, j \in 1..Len(seq) : i < j => Rank(seq[i].type) <= Rank(seq[j].type)

\* C12: the events a streaming adapter yields for a stream it read to the end
\* come in the order message_start, content_delta*, message_delta?,
\* message_stop.
C12_StreamEventOrder ==
  \A r \in Reqs : Streamed(r) => InStreamOrder(result[r].chunks)

\* the chat-completion chunks, finish chunk and sentinel the body of a
\* streamed answer is to hold for the adapter events seq
ContentDeltas(seq) == SelectSeq(seq, LAMBDA c : c.type = "content_delta")
ExpectedBody(seq) ==
  [i \in 1..Len(ContentDeltas(seq)) |->
     [kind |-> "content", text |-> ContentDeltas(seq)[i].text]]
  \o <<[kind |-> "finish", text |-> ""], [kind |-> "DONE", text |-> ""]>>

\* C13: the body of a successful streaming response holds one chunk per
\* content_delta, in arrival order and with that delta's text, then the finish
\* chunk, then the [DONE] sentinel as its last event.
C13_StreamBody ==
  \A r \in Reqs :
    (pc[r] = "done" /\ Streamed(r) /\ resp[r].statusCode = 200) =>
      /\ resp[r].body.events = ExpectedBody(result[r].chunks)
      /\ resp[r].body.object = "text/event-stream"

C13_Witness ==
  \E r \in Reqs :
    /\ pc[r] = "done"
    /\ resp[r].statusCode = 200
    /\ Count(result[r].chunks, "content_delta") = 2
    /\ resp[r].body.events = <<[kind |-> "content", text |-> "Hel"],
                               [kind |-> "content", text |-> "lo"],
                               [kind |-> "finish", text |-> ""],
                               [kind |-> "DONE", text |-> ""]>>

\* the last value of token count f the events of seq carried
Carriers(seq, f) == {i \in 1..Len(seq) : f \in seq[i].carries}
LastCarried(seq, f) ==
  seq[CHOOSE i \in Carriers(seq, f) : \A j \in Carriers(seq, f) : j <= i][f]

\* C14: the token counts a streamed request is billed with are the last
\* counts the stream reported, for the input and for the output tokens.
C14_LastCountsBilled ==
  \A r \in Reqs :
    Streamed(r) =>
      /\ Carriers(result[r].chunks, "input_tokens") # {} =>
            result[r].input_tokens = LastCarried(result[r].chunks, "input_tokens")
      /\ Carriers(result[r].chunks, "output_tokens") # {} =>
            result[r].output_tokens = LastCarried(result[r].chunks, "output_tokens")

\* the prices of the model a request names, and the cost of its token counts
\* in 10^-9 dollars
PriceOf(b) == MODEL_PRICING[MODEL_MAPPING[body_model(b).v]]
ExactCost(r) ==
  result[r].input_tokens * PriceOf(body[r]).input
    + result[r].output_tokens * PriceOf(body[r]).output
\* micro is nano (10^-9 dollars) rounded to 6 decimals of a dollar
Rounded6(micro, nano) ==
  /\ 2 * (1000 * micro - nano) <= 1000
  /\ 2 * (nano - 1000 * micro) <= 1000
Billed(r) == calls[r].usage = 1
UsageKey(r) == <<team[r].team_id, today(now)>>

\* C15: for every family, read synchronously or as a stream, the cost of a
\* request is input_tokens / 1000 * price_input + output_tokens / 1000 *
\* price_output at the prices of the resolved model; it is not negative, and
\* the response and the usage item carry it rounded to 6 decimals.
C15_CostFormula ==
  \A r \in Reqs :
    Billed(r) =>
      /\ result[r].cost = ExactCost(r)
      /\ result[r].cost >= 0
      /\ (resp[r].statusCode = 200 /\ ~ body_stream(body[r])) =>
            Rounded6(resp[r].body.cost_usd, ExactCost(r))
      /\ (faults[r].usage = "none" /\ usageTable[UsageKey(r)].requests = 1) =>
            Rounded6(usageTable[UsageKey(r)].total_cost, ExactCost(r))

\* a streamed Anthropic request of 7 input and 4 output tokens: 0.00000675
\* dollars, 0.000007 in the usage item
C15_Witness ==
  \E r \in Reqs :
    /\ Billed(r)
    /\ Streamed(r)
    /\ faults[r].usage = "none"
    /\ result[r].cost = 6750
    /\ usageTable[UsageKey(r)].requests = 1
    /\ usageTable[UsageKey(r)].total_cost = 7

\* round(words * 1.3): the nearest integer, half to even
RoundedEstimate(words) ==
  LET q == (words * 13) \div 10
      r == (words * 13) % 10 IN
  IF r < 5 THEN q
  ELSE IF r > 5 THEN q + 1
  ELSE IF q % 2 = 0 THEN q ELSE q + 1

\* C16: when the Titan response carries no token count, input_tokens is
\* round(word_count(prompt) * 1.3) and output_tokens is
\* round(word_count(output_text) * 1.3).
C16_TitanEstimateRounds ==
  \A r \in Reqs :
    result[r].estimated =>
      /\ result[r].input_tokens =
            RoundedEstimate(titan_prompt_words(body_messages(body[r]).v))
      /\ result[r].output_tokens = RoundedEstimate(WordCount(result[r].content[1]))


\* the content of the last system message of a messages array, as a sequence
\* of at most one text
RECURSIVE LastSystem(_)
LastSystem(messages) ==
  IF messages = <<>> THEN <<>>
  ELSE IF messages[Len(messages)].role = "system" THEN <<messages[Len(messages)].content>>
  ELSE LastSystem(SubSeq(messages, 1, Len(messages) - 1))

\* the turns of a messages array that are not system messages, in order
RECURSIVE NonSystemTurns(_)
NonSystemTurns(messages) ==
  IF messages = <<>> THEN <<>>
  ELSE (IF Head(messages).role = "system" THEN <<>>
        ELSE <<[role |-> Head(messages).role, content |-> Head(messages).content]>>)
       \o NonSystemTurns(Tail(messages))

\* C17: the payload of every backend call, whatever the family, holds as its
\* system text the content of the last system message alone (none when there
\* is no system message) and the non-system turns in their original order.
C17_LastSystemOnly ==
  \A r \in Reqs :
    calls[r].backend = 1 =>
      /\ sent[r].system = LastSystem(body_messages(body[r]).v)
      /\ sent[r].turns = NonSystemTurns(body_messages(body[r]).v)

\* the same restricted to the Anthropic and Nova families
C17_ChatFamilies ==
  \A r \in Reqs :
    (calls[r].backend = 1 /\ family_of(body[r]) # "titan") =>
      /\ sent[r].system = LastSystem(body_messages(body[r]).v)
      /\ sent[r].turns = NonSystemTurns(body_messages(body[r]).v)

\* the sum of the per-model counters of a usage item
RECURSIVE SumModels(_, _)
SumModels(models, names) ==
  IF names = {} THEN 0
  ELSE LET n == CHOOSE x \in names : TRUE IN models[n] + SumModels(models, names \ {n})

\* a chat request that completed with a 200 and whose call of the usage table
\* met no storage error
CompletedNoStorageError(r) ==
  /\ pc[r] = "done"
  /\ Billed(r)
  /\ faults[r].usage = "none"
  /\ resp[r].statusCode = 200

\* C18: once a chat request of a team has completed on a day with no storage
\* error, the usage table holds the item of that (team_id, date), created if
\* it was absent; its requests, token sums and total_cost are the sums over
\* the completed requests and its per-model counters sum to requests.
C18_RowPerTeamDay ==
  \A r \in Reqs :
    CompletedNoStorageError(r) =>
      /\ UsageKey(r) \in DOMAIN usageTable
      /\ UsageKey(r) \in DOMAIN usageLog
      /\ usageTable[UsageKey(r)] = usageLog[UsageKey(r)]
      /\ usageTable[UsageKey(r)].requests >= 1
      /\ SumModels(usageTable[UsageKey(r)].models, DOMAIN usageTable[UsageKey(r)].models)
            = usageTable[UsageKey(r)].requests

\* the same for the requests of a team whose item of the day exists with its
\* models map before the first of them
C18_SeededRow ==
  \A r \in Reqs :
    (CompletedNoStorageError(r) /\ team[r].team_id = "team-b") =>
      /\ UsageKey(r) \in DOMAIN usageTable
      /\ UsageKey(r) \in DOMAIN usageLog
      /\ usageTable[UsageKey(r)] = usageLog[UsageKey(r)]
      /\ usageTable[UsageKey(r)].requests >= 1
      /\ SumModels(usageTable[UsageKey(r)].models, DOMAIN usageTable[UsageKey(r)].models)
            = usageTable[UsageKey(r)].requests

\* the response of a request when its usage write succeeds
OutcomeWithWrite(r) ==
  completion_response(body[r], team[r].team_id, result[r], result[r].cost)

\* C19: whatever happens to the write of track_usage, the caller gets the
\* response it gets when the write succeeds: same status, same body, and no
\* exception leaves the handler.
C19_UsageFailureInvisible ==
  \A r \in Reqs :
    Billed(r) =>
      /\ pc[r] = "done"
      /\ resp[r] = OutcomeWithWrite(r)

\* the same for the failures DynamoDB reports as a ClientError
C19_ClientErrorInvisible ==
  \A r \in Reqs :
    (Billed(r) /\ faults[r].usage \in {"none", "ClientError"}) =>
      /\ pc[r] = "done"
      /\ resp[r] = OutcomeWithWrite(r)

\* the usage item of a key before any request of the behaviour
InitialRow(key) == IF key \in DOMAIN SeededUsage THEN SeededUsage[key] ELSE NoSums

\* C20: however concurrent requests of a team interleave, every usage item
\* equals the sums over the requests whose write succeeded (request count,
\* both token sums, total cost and per-model counters): no update is lost,
\* and a write that failed added nothing.
C20_NoLostUsageUpdate ==
  /\ DOMAIN usageLog \subseteq DOMAIN usageTable
  /\ \A key \in DOMAIN usageTable :
       usageTable[key] = IF key \in DOMAIN usageLog THEN usageLog[key] ELSE InitialRow(key)

\* two requests of team-b in the two slots, on different models, both written,
\* after an earlier request of the behaviour that left nothing in the item
C20_Witness ==
  \E r1, r2 \in Reqs :
    /\ r1 # r2
    /\ Billed(r1) /\ Billed(r2)
    /\ faults[r1].usage = "none" /\ faults[r2].usage = "none"
    /\ body_model(body[r1]).v # body_model(body[r2]).v
    /\ <<"team-b", 0>> \in DOMAIN usageLog
    /\ usageTable[<<"team-b", 0>>].requests = 2
    /\ usageTable[<<"team-b", 0>>].input_tokens = 20
    /\ served = 3

\* the sum of the values of a table of counters
RECURSIVE SumCounts(_, _)
SumCounts(table, keys) ==
  IF keys = {} THEN 0
  ELSE LET k == CHOOSE x \in keys : TRUE IN table[k] + SumCounts(table, keys \ {k})
UsageRequests == [k \in DOMAIN usageTable |-> usageTable[k].requests]

BackendError(r) ==
  /\ calls[r].backend = 1
  /\ faults[r].backend \in (BackendFaults \ {"none"}) \cup {"EventStreamError"}

\* C22: a transport or backend error of the provider call, on either path and
\* at any point of the stream, ends the request with a 500 error response; no
\* exception of the backend leaves the handler.
C22_BackendErrorIs500 ==
  \A r \in Reqs :
    BackendError(r) =>
      /\ pc[r] = "done"
      /\ resp[r].kind = "response"
      /\ resp[r].statusCode = 500

\* the same for the errors the service itself reports (ClientError)
C22_ClientErrorIs500 ==
  \A r \in Reqs :
    (BackendError(r) /\ faults[r].backend \in {"ClientError", "EventStreamError"}) =>
      /\ pc[r] = "done"
      /\ resp[r] \in {error_response(500, Text("Model invocation failed")),
                      error_response(500, Text("Streaming invocation failed"))}

\* the payload of the backend reply of r was malformed
MalformedPayload(r) ==
  calls[r].backend = 1 /\ faults[r].backend \in {"missing_fields", "not_json"}

\* C23: a backend payload that lacks expected fields or does not decode ends
\* the request with a 500 'unexpected provider response' error, for every
\* family, for a synchronous response as for a chunk of a stream.
C23_MalformedPayloadIs500 ==
  \A r \in Reqs :
    MalformedPayload(r) =>
      /\ pc[r] = "done"
      /\ resp[r] \in {error_response(500, Text("Unexpected response format from model")),
                      error_response(500, Text("Invalid response from model"))}

\* the same for synchronous responses and for chunks that do not decode
C23_SyncOrUndecodable ==
  \A r \in Reqs :
    (MalformedPayload(r) /\ (~ body_stream(body[r]) \/ faults[r].backend = "not_json")) =>
      /\ pc[r] = "done"
      /\ resp[r] \in {error_response(500, Text("Unexpected response format from model")),
                      error_response(500, Text("Invalid response from model"))}

\* GET /health, bare or behind a stage prefix
HealthPath(path) == path = <<"/health">> \/ (Len(path) = 2 /\ path[1] \in Stages /\ path[2] = "/health")
Health == ok_response([NoBody EXCEPT !.object = "health"])

\* the step receives a health request in slot r
HealthStep(r) ==
  /\ served' = served + 1
  /\ HealthPath(req'[r].path)
  /\ \A q \in Reqs \ {r} : pc'[q] = pc[q] /\ req'[q] = req[q] /\ resp'[q] = resp[q]

\* C24: a request for /health, with or without a stage prefix, is answered 200
\* without an API key and without any call: no key lookup, no rate counter
\* incremented, no usage written, every table as it was.
C24_HealthTouchesNothing ==
  [][\A r \in Reqs :
       HealthStep(r) =>
         /\ pc'[r] = "done"
         /\ resp'[r] = Health
         /\ req'[r].key = NoHeader
         /\ calls'[r] = NoCalls
         /\ UNCHANGED <<rateTable, rateLog, usageTable, usageLog, query, alt>>]_vars

\* a health request behind /prod answered after a request that was counted
C24_Witness ==
  \E r \in Reqs :
    /\ req[r].path = <<"/prod", "/health">>
    /\ pc[r] = "done"
    /\ resp[r] = Health
    /\ calls[r] = NoCalls
    /\ rateTable # EmptyTable

\* a synchronous chat request that succeeded on counts the backend reported
SyncSuccess(r) ==
  /\ pc[r] = "done"
  /\ Billed(r)
  /\ ~ body_stream(body[r])
  /\ resp[r].statusCode = 200
  /\ ~ result[r].estimated

\* the count of generated tokens a reply reports
ReportedOutput(family, answer) ==
  IF family = "titan" THEN answer.token_count ELSE answer.output_tokens

\* C25: the response of a successful synchronous chat request carries the text
\* of the backend as content, the token counts the backend reported as
\* prompt_tokens and completion_tokens, their sum as total_tokens, the model
\* name the caller gave and the team id of the key.
C25_NormalizedResponse ==
  \A r \in Reqs :
    SyncSuccess(r) =>
      /\ resp[r].body.content = <<answered[r].text>>
      /\ resp[r].body.input_tokens = answered[r].input_tokens
      /\ resp[r].body.output_tokens = ReportedOutput(family_of(body[r]), answered[r])
      /\ resp[r].body.total_tokens = resp[r].body.input_tokens + resp[r].body.output_tokens
      /\ resp[r].body.model = body_model(body[r]).v
      /\ resp[r].body.team_id = team[r].team_id

\* the same with the prompt count left out for the Titan family
C25_ExceptTitanPromptCount ==
  \A r \in Reqs :
    SyncSuccess(r) =>
      /\ resp[r].body.content = <<answered[r].text>>
      /\ family_of(body[r]) # "titan" => resp[r].body.input_tokens = answered[r].input_tokens
      /\ resp[r].body.output_tokens = ReportedOutput(family_of(body[r]), answered[r])
      /\ resp[r].body.total_tokens = resp[r].body.input_tokens + resp[r].body.output_tokens
      /\ resp[r].body.model = body_model(body[r]).v
      /\ resp[r].body.team_id = team[r].team_id

\* the usage handler answered 200 after a query that met no storage error
Summarized == query.pc = "done" /\ query.resp.statusCode = 200 /\ query.faults.query = "none"

\* the days of the team's items dated in [today - days, today]
DaysInRange ==
  {d \in (today(now) - query.ndays)..today(now) : <<query.team_id, d>> \in DOMAIN usageTable}
ItemOf(d) == usageTable[<<query.team_id, d>>]
SumOver(f) == SumCounts(f, DOMAIN f)
ModelsInRange == UNION {DOMAIN ItemOf(d).models : d \in DaysInRange}
ModelRequests(n) ==
  SumOver([d \in {e \in DaysInRange : n \in DOMAIN ItemOf(e).models} |-> ItemOf(d).models[n]])

\* C26: the summary of a team over `days` days has as totals the sums of
\* requests, input tokens, output tokens and cost over exactly the team's
\* items dated in [today - days, today]; one daily entry per such item, by
\* ascending date; one by_model entry per model with its requests summed over
\* the days, by descending requests; avg_daily_cost = total_cost / days (0 when
\* days = 0) and avg_tokens_per_request = (input + output) / requests (0 when
\* there are no requests).
C26_Summary ==
  Summarized =>
    LET s == query.resp.data.summary
        daily == query.resp.data.daily
        by_model == query.resp.data.by_model IN
    /\ s.total_requests = SumOver([d \in DaysInRange |-> ItemOf(d).requests])
    /\ s.total_input_tokens = SumOver([d \in DaysInRange |-> ItemOf(d).input_tokens])
    /\ s.total_output_tokens = SumOver([d \in DaysInRange |-> ItemOf(d).output_tokens])
    /\ s.total_cost_usd = SumOver([d \in DaysInRange |-> ItemOf(d).total_cost])
    /\ s.avg_daily_cost_usd =
         (IF query.ndays = 0 THEN Zero ELSE Ratio(s.total_cost_usd, query.ndays))
    /\ s.avg_tokens_per_request =
         (IF s.total_requests = 0 THEN Zero
          ELSE Ratio(s.total_input_tokens + s.total_output_tokens, s.total_requests))
    /\ Len(daily) = Cardinality(DaysInRange)
    /\ \A i \in 1..Len(daily) :
         /\ daily[i].date \in DaysInRange
         /\ daily[i].requests = ItemOf(daily[i].date).requests
         /\ daily[i].input_tokens = ItemOf(daily[i].date).input_tokens
         /\ daily[i].output_tokens = ItemOf(daily[i].date).output_tokens
         /\ daily[i].cost_usd = ItemOf(daily[i].date).total_cost
         /\ i > 1 => daily[i - 1].date < daily[i].date
    /\ Len(by_model) = Cardinality(ModelsInRange)
    /\ \A i \in 1..Len(by_model) :
         /\ by_model[i].model \in ModelsInRange
         /\ by_model[i].requests = ModelRequests(by_model[i].model)
         /\ i > 1 => by_model[i - 1].requests >= by_model[i].requests
         /\ \A j \in 1..Len(by_model) : by_model[j].model = by_model[i].model => j = i

\* a summary over the last two days of three, an older item left out: 11
\* requests, two models of which one is counted over both days
C26_Witness ==
  /\ Summarized
  /\ query.ndays = 1
  /\ <<query.team_id, 0>> \in DOMAIN usageTable
  /\ Len(query.resp.data.daily) = 2
  /\ query.resp.data.summary.total_requests = 11
  /\ query.resp.data.summary.avg_daily_cost_usd = Ratio(530, 1)
  /\ query.resp.data.by_model = <<[model |-> <<"claude-3-haiku">>, requests |-> 6],
                                  [model |-> <<"nova-micro">>, requests |-> 5]>>

\* the usage handler called get_usage and ended
Queried == query.pc = "done" /\ query.team_id # ""

\* a summary of zeros with empty lists
AllZero(data) ==
  /\ data.summary.total_requests = 0
  /\ data.summary.total_input_tokens = 0
  /\ data.summary.total_output_tokens = 0
  /\ data.summary.total_tokens = 0
  /\ data.summary.total_cost_usd = 0
  /\ data.summary.avg_daily_cost_usd.num = 0
  /\ data.summary.avg_tokens_per_request.num = 0
  /\ data.daily = <<>>
  /\ data.by_model = <<>>

\* C27: when the team has no usage item in the period, or the usage table
\* fails during the query, the usage handler still answers 200, with a summary
\* of zeros and empty daily and by_model lists.
C27_ZeroSummaryOnFailure ==
  (Queried /\ (query.faults.query # "none" \/ DaysInRange = {})) =>
    /\ query.resp.kind = "response"
    /\ query.resp.statusCode = 200
    /\ AllZero(query.resp.data)

\* the same for a team without items and for the failures DynamoDB reports as
\* a ClientError
C27_ZeroSummaryOnClientError ==
  (Queried /\ (query.faults.query = "ClientError"
               \/ (query.faults.query = "none" /\ DaysInRange = {}))) =>
    /\ query.resp.kind = "response"
    /\ query.resp.statusCode = 200
    /\ AllZero(query.resp.data)

\* a key the gateway's validate_api_key refuses: unknown, inactive or expired
RefusedKey(k) == k \in PresentedKeys /\ (UnknownKey(k) \/ InactiveKey(k) \/ ExpiredKey(k))

\* C28: GET /v1/usage under a key that is unknown, inactive or expired is
\* answered with the 401 of an invalid key, and no usage of the key's team is
\* queried or returned.
C28_UsageKeyValidated ==
  (query.pc = "done" /\ RefusedKey(query.key) /\ query.faults.lookup = "none") =>
    /\ query.resp = usage_error_response(401, "Invalid API key")
    /\ query.team_id = ""

\* the same for unknown keys
C28_UnknownKeyRefused ==
  (query.pc = "done" /\ query.key \in PresentedKeys /\ UnknownKey(query.key)
   /\ query.faults.lookup = "none") =>
    /\ query.resp = usage_error_response(401, "Invalid API key")
    /\ query.team_id = ""

\* --- rate-limit buckets (check_rate_limit, lines 670-690)
\* invocation r made its rate check in this step
RateStep(r) == calls'[r].rate = calls[r].rate + 1

\* C29: a rate check of a team in the current minute touches the one counter
\* of that (team, minute) and no other: it is incremented by one whichever of
\* the team's API keys the request carries, no counter of another team or
\* another minute changes, and no other counter appears.
C29_SharedCounterFrame ==
  [][\A r \in Reqs :
       RateStep(r) =>
         LET key == <<team[r].team_id, now>> IN
         /\ DOMAIN rateTable' \subseteq DOMAIN rateTable \cup {key}
         /\ \A k \in DOMAIN rateTable \ {key} :
              k \in DOMAIN rateTable' /\ rateTable'[k] = rateTable[k]
         /\ faults'[r].rate = "none" =>
              /\ key \in DOMAIN rateTable'
              /\ rateTable'[key] =
                   (IF key \in DOMAIN rateTable THEN rateTable[key] ELSE 0) + 1]_vars

\* requests under two keys of team-b were counted in one counter of the
\* current minute, while a counter of team-a from the minute before is kept
C29_Witness ==
  /\ now = 1
  /\ <<"team-b", 1>> \in DOMAIN rateTable /\ rateTable[<<"team-b", 1>>] = 2
  /\ <<"team-a", 0>> \in DOMAIN rateTable /\ rateTable[<<"team-a", 0>>] = 1
  /\ \E r1, r2 \in Reqs :
       /\ req[r1].key = "key-b" /\ calls[r1].rate = 1 /\ faults[r1].rate = "none"
       /\ req[r2].key = "key-b2" /\ calls[r2].rate = 1 /\ faults[r2].rate = "none"

\* C30: the first rate check of a team in a minute that has no counter yet
\* creates the counter at 1 and is allowed (limit_rpm >= 1), whatever the
\* counters of earlier minutes hold: a denial never outlasts its minute.
C30_FreshWindowAllowed ==
  [][\A r \in Reqs :
       (/\ RateStep(r)
        /\ faults'[r].rate = "none"
        /\ team[r].rate_limit_rpm >= 1
        /\ <<team[r].team_id, now>> \notin DOMAIN rateTable)
       => /\ <<team[r].team_id, now>> \in DOMAIN rateTable'
          /\ rateTable'[<<team[r].team_id, now>>] = 1
          /\ stages'[r] = Append(stages[r], "RateChecked")
          /\ pc'[r] = "route"]_vars

\* team-a was denied in minute 0 and its first check of minute 1 was allowed
C30_Witness ==
  /\ <<"team-a", 0>> \in DOMAIN rateLog /\ FALSE \in Range(rateLog[<<"team-a", 0>>])
  /\ <<"team-a", 1>> \in DOMAIN rateLog /\ rateLog[<<"team-a", 1>>] = <<TRUE>>
  /\ rateTable[<<"team-a", 0>>] > rateTable[<<"team-a", 1>>]

\* C31: no step of the gateway removes a counter or lowers it; a rate check
\* that reaches the store raises the counter of its bucket by exactly 1,
\* whether its verdict is allowed or denied, and every other step leaves the
\* counters as they are.
C31_CounterOnlyGrows ==
  [][/\ \A k \in DOMAIN rateTable :
          k \in DOMAIN rateTable' /\ rateTable'[k] >= rateTable[k]
     /\ \A r \in Reqs :
          (RateStep(r) /\ faults'[r].rate = "none") =>
            /\ stages'[r][Len(stages'[r])] \in {"RateChecked", "RateDenied"}
            /\ SumCounts(rateTable', DOMAIN rateTable')
                 = SumCounts(rateTable, DOMAIN rateTable) + 1
     /\ (\A r \in Reqs : ~ (RateStep(r) /\ faults'[r].rate = "none")) =>
          rateTable' = rateTable]_vars

\* a denied check raised a counter that already stood over the limit
C31_Witness ==
  \E k \in DOMAIN rateTable :
    /\ rateTable[k] = LimitOf(k[1]) + 2
    /\ Len(rateLog[k]) = rateTable[k]
    /\ ~ rateLog[k][Len(rateLog[k]) - 1]
    /\ ~ rateLog[k][Len(rateLog[k])]

\* --- the unit of quota a request consumes (lambda_handler, lines 109-125)
\* the counter of the bucket a rate check of invocation r falls into
Counter(table, r) ==
  IF <<team[r].team_id, now>> \in DOMAIN table THEN table[<<team[r].team_id, now>>] ELSE 0

\* invocation r leaves its rate check in this step
LeavesRateCheck(r) == pc[r] = "ratecheck" /\ pc'[r] # "ratecheck"

\* invocation r takes a step of routing, request validation, dispatch or
\* usage tracking
LaterStep(r) == pc[r] \in {"route", "dispatch", "track"} /\ pc'[r] # pc[r]

EndsFailed(r) ==
  /\ pc[r] # "done" /\ pc'[r] = "done"
  /\ resp'[r].kind = "response"
  /\ resp'[r].statusCode \in {400, 429, 500}

StreamEnded(r) ==
  /\ body_stream(body[r])
  /\ Count(result[r].chunks, "content_delta") > 0

\* the content events the caller of r has been handed
Delivered(r) ==
  IF resp[r].kind = "response" /\ resp[r].statusCode = 200
    THEN SelectSeq(resp[r].body.events, LAMBDA e : e.kind = "content")
    ELSE <<>>

\* C34: a content chunk reaches the caller before the backend stream has
\* ended: once the handler has read the stream to its end, the caller holds
\* the content events built from it.
C34_ForwardedBeforeStreamEnd ==
  \A r \in Reqs :
    StreamEnded(r) => Len(Delivered(r)) = Count(result[r].chunks, "content_delta")

\* what the handler does instead: the events reach the caller in one piece
\* with the response, after the stream was read and the usage tracked
C34_DeliveredWithResponse ==
  \A r \in Reqs :
    StreamEnded(r) =>
      \/ pc[r] = "track" /\ Delivered(r) = <<>>
      \/ pc[r] = "done" /\ calls[r].usage = 1

\* --- the outcomes of the gateway handler (lambda_handler 84-125)
TaxonomyStatuses == {200, 400, 401, 404, 429, 500}

\* C35: every request ends in a response with a status of the taxonomy; a
\* failure that no other code covers (a body that is not JSON, for one) gives
\* 500, and no exception leaves the handler.
C35_AlwaysAResponse ==
  \A r \in Reqs :
    pc[r] = "done" =>
      /\ resp[r].kind = "response"
      /\ resp[r].statusCode \in TaxonomyStatuses

\* what holds of the handler: the responses it does return carry a status of
\* the taxonomy, and a request body that is a JSON object with a model given
\* as a string never ends in an exception of the handler's own code
C35_ResponsesInTaxonomy ==
  \A r \in Reqs :
    pc[r] = "done" =>
      /\ resp[r].kind \in {"response", "exception"}
      /\ resp[r].kind = "response" => resp[r].statusCode \in TaxonomyStatuses
      /\ (resp[r].kind = "exception" /\ resp[r].message.text = "JSONDecodeError") =>
           body[r].kind = "invalid_json"

\* --- the request state machine (lambda_handler 84-125, chat_completion_stream
\* 258-347)
\* the n-th request received is being handled in slot r
InFlight(r, n) == served = n /\ pc[r] \notin {"idle", "done"}

\* the n-th request has ended with a response: Completed (200) or Failed
Outcome(r, n) ==
  /\ served = n /\ pc[r] = "done"
  /\ resp[r].kind = "response"
  /\ resp[r].statusCode \in TaxonomyStatuses

\* C36: every request that is being handled eventually ends, in exactly one
\* terminal outcome: the one response of the request, Completed with 200 or
\* Failed with the status of its error.
C36_OneTerminalOutcome ==
  \A r \in Reqs : \A n \in 1..MaxServed : InFlight(r, n) ~> Outcome(r, n)

\* what holds: every request that is being handled eventually ends, with a
\* response or with an exception
C36_Terminates ==
  \A r \in Reqs : \A n \in 1..MaxServed :
    InFlight(r, n) ~> (served = n /\ pc[r] = "done")

\* the position of a stage in the request state machine
StageRank(s) ==
  CASE s \in {"KeyMissing", "KeyRejected", "KeyRaised", "KeyValidated", "Health"} -> 1
    [] s \in {"RateChecked", "RateDenied", "RateRaised"} -> 2
    [] s = "RequestValidated" -> 3
    [] s = "Dispatched" -> 4
    [] OTHER -> 5

\* and the state machine is linear: the stages of a request are passed in
\* order, none twice, and a request that has ended takes no further step
C36_Linear ==
  [][\A r \in Reqs :
       /\ \A i, j \in 1..Len(stages'[r]) :
            i < j => StageRank(stages'[r][i]) < StageRank(stages'[r][j])
       /\ (pc[r] = "done" /\ served' = served) => (pc'[r] = "done" /\ resp'[r] = resp[r])]_vars

\* --- Titan token counts (call_titan_model 616-634)
\* the Titan backend answered the synchronous request r with a tokenCount
TitanCounted(r) ==
  /\ calls[r].backend = 1
  /\ pc[r] \in {"track", "done"}
  /\ family_of(body[r]) = "titan"
  /\ ~ body_stream(body[r])
  /\ faults[r].backend = "none"
  /\ answered[r].has_token_count

\* C37: when Titan returns a tokenCount, that one value is both the input and
\* the output token count of the request, whatever the prompt was: the cost is
\* that of tokenCount input plus tokenCount output tokens, and the response
\* reports the value twice.
C37_TitanCountTwice ==
  \A r \in Reqs :
    TitanCounted(r) =>
      /\ result[r].input_tokens = answered[r].token_count
      /\ result[r].output_tokens = answered[r].token_count
      /\ ~ result[r].estimated
      /\ Billed(r) =>
           result[r].cost = cost_of(model_id_of(body[r]), answered[r].token_count,
                                    answered[r].token_count)
      /\ (pc[r] = "done" /\ resp[r].statusCode = 200) =>
           /\ resp[r].body.input_tokens = answered[r].token_count
           /\ resp[r].body.output_tokens = answered[r].token_count
           /\ resp[r].body.total_tokens = 2 * answered[r].token_count

\* a prompt of a system and a user message, for which Titan counted 10 prompt
\* tokens and 2 generated tokens, was billed as 2 input and 2 output tokens
C37_Witness ==
  \E r \in Reqs :
    /\ TitanCounted(r) /\ pc[r] = "done" /\ resp[r].statusCode = 200
    /\ Len(body_messages(body[r]).v) = 2
    /\ answered[r].input_tokens = 10 /\ answered[r].token_count = 2
    /\ resp[r].body.input_tokens = 2 /\ resp[r].body.output_tokens = 2
    /\ faults[r].usage = "none"
    /\ usageLog[UsageKey(r)].input_tokens >= 2

\* --- rejected keys in the lambda/src variant (auth.py 12-38, handler.py 26-35)
\* the key the variant was presented is unknown, disabled or expired
SrcUnknown == alt.key = "src-unknown"
SrcDisabled ==
  alt.key \in DOMAIN SrcKeysTable /\ ~ get(SrcKeysTable[alt.key], "active", TRUE)
SrcExpired ==
  /\ alt.key \in DOMAIN SrcKeysTable
  /\ get(SrcKeysTable[alt.key], "active", TRUE)
  /\ "expires_at" \in DOMAIN SrcKeysTable[alt.key]
  /\ SrcKeysTable[alt.key].expires_at.format = "naive"

\* the variant has answered a request whose key lookup met no storage error
SrcAnswered == alt.pc = "done" /\ alt.path # "/health" /\ alt.fault = "none"

\* the response to an unknown key
SrcUnknownKeyResponse ==
  create_response(401, src_validate_api_key("src-unknown", "none", "none", 0, EmptyTable).auth.error)

\* C38: in the lambda/src variant an unknown key, a disabled key and an
\* expired key get one and the same response: 401 with the error message of
\* an unknown key.
C38_SrcUniformRejection ==
  (SrcAnswered /\ (SrcUnknown \/ SrcDisabled \/ SrcExpired)) =>
    alt.resp = SrcUnknownKeyResponse

\* what the variant does: the three get 401 and leave the rate table alone,
\* each with an error message of its own
C38_SrcRejectedWithOwnMessage ==
  /\ (SrcAnswered /\ (SrcUnknown \/ SrcDisabled \/ SrcExpired)) =>
       /\ alt.resp.statusCode = 401
       /\ \A k \in DOMAIN alt.counts : k[1] # alt.key
  /\ (SrcAnswered /\ SrcUnknown) => alt.resp.error = "Invalid API key"
  /\ (SrcAnswered /\ SrcDisabled) => alt.resp.error = "API key disabled"
  /\ (SrcAnswered /\ SrcExpired) => alt.resp.error = "API key expired"
====
